---- MODULE Spec2Model ----
(***************************************************************************)
(* Backend service adapters of the earnout platform:                       *)
(*   WalrusService (blob storage adapter)  - specification Spec            *)
(*   SealService   (encryption adapter)    - specification SpecSeal        *)
(* Every async method is split at its awaits: the synchronous prefix of a  *)
(* call is one action, each awaited client call is one action, and the     *)
(* storage network (epoch counter, blob availability) moves in between.    *)
(* Strings built from template literals are sequences of tokens; byte      *)
(* buffers are sequences of integers in 0..255.                            *)
(***************************************************************************)
EXTENDS Integers, Sequences, FiniteSets, TLC

\* ------------------------------------------------------------------ bounds
MaxLen == 3
MaxCfgSize == 2
MaxCfgEpochs == 1
MaxEpoch == 2
MaxBlobs == 1

\* ------------------------------------------------------- program constants
CommitmentPrefixLen == 64
HexPad == 2
HexRadix == 16

\* ---------------------------------------------------------------- helpers
Min(a, b) == IF a < b THEN a ELSE b

\* per length: the all-zero buffer and the buffer alternating 255, 0, 255, ...
Payloads ==
  {[i \in 1..n |-> 0] : n \in 0..MaxLen}
    \cup {[i \in 1..n |-> IF i % 2 = 1 THEN 255 ELSE 0] : n \in 0..MaxLen}

\* s occurs as a contiguous part of t
Contains(t, s) ==
  \E i \in 1..(Len(t) + 1) :
     i + Len(s) - 1 <= Len(t) /\ SubSeq(t, i, i + Len(s) - 1) = s

Uint8ArrayTruncated(data) == [i \in 1..(Len(data) - 1) |-> data[i] % 256]

\* new Uint8Array(buffer): element-wise copy, each element stored modulo 256
Uint8ArrayFrom(data) == [i \in 1..Len(data) |-> data[i] % 256]

\* Buffer.from(uint8array): element-wise copy
BufferFrom(data) == [i \in 1..Len(data) |-> data[i] % 256]

HexDigits == <<"0", "1", "2", "3", "4", "5", "6", "7",
               "8", "9", "a", "b", "c", "d", "e", "f">>

RECURSIVE NumToString(_, _)
\* Number.prototype.toString(radix) for a non-negative integer
NumToString(n, radix) ==
  IF n < radix THEN <<HexDigits[n + 1]>>
  ELSE Append(NumToString(n \div radix, radix), HexDigits[(n % radix) + 1])

RECURSIVE padStart(_, _, _)
\* String.prototype.padStart(width, fill) with a one-character fill
padStart(s, width, fill) ==
  IF Len(s) >= width THEN s ELSE padStart(<<fill>> \o s, width, fill)

ByteToHexUnpadded(b) == NumToString(b, HexRadix)

\* b.toString(16).padStart(2, '0')
ByteToHex(b) == padStart(NumToString(b, HexRadix), HexPad, "0")

RECURSIVE JoinHex(_)
\* bytes.map(byteToHex).join('')
JoinHex(bytes) ==
  IF bytes = <<>> THEN <<>>
  ELSE ByteToHex(Head(bytes)) \o JoinHex(Tail(bytes))

\* ------------------------------------------------------------- error values
\* A thrown value is either an Error carrying a message or some other value.
ErrorOf(msg) == [isError |-> TRUE, message |-> msg]
NonError == [isError |-> FALSE, message |-> <<>>]

ClientFailures == {ErrorOf(<<"network request failed">>), NonError}

WrapErrorGeneric(prefix, e) == ErrorOf(<<prefix, "Unknown error">>)

\* `${prefix}${error instanceof Error ? error.message : 'Unknown error'}`
WrapError(prefix, e) ==
  ErrorOf(<<prefix>> \o (IF e.isError THEN e.message ELSE <<"Unknown error">>))

NoOutcome == [kind |-> "none"]
Thrown(e) == [kind |-> "thrown", error |-> e]
Returned(v) == [kind |-> "returned", value |-> v]

NoCause == [isError |-> FALSE, message |-> <<"no failure">>]

\* ============================================================ WalrusService
VARIABLES
  maxFileSize,      \* config.walrus.maxFileSize
  storageEpochs,    \* config.walrus.storageEpochs
  backendKeypair,   \* WalrusService.backendKeypair: "loaded" or "null"
  epoch,            \* storage network: committee epoch
  blobs,            \* storage network: blob id -> stored bytes
  pc,               \* position of the running call ("idle", "done", or the pending await)
  op,               \* method of the running (or last finished) call
  arg,              \* its argument
  calls,            \* client calls issued by it, in order
  cause,            \* value thrown by the client call that failed in it
  failedAt,         \* Len(calls) when that client call failed, 0 if none did
  tmp,              \* locals kept across awaits
  outcome,          \* what the call returned or threw
  uploads,          \* epochs of the last two results returned by upload, oldest first
  lastUpload        \* payload and blob id of the last upload that returned

walrusVars == <<maxFileSize, storageEpochs, backendKeypair, epoch, blobs, pc, op,
                arg, calls, cause, failedAt, tmp, outcome, uploads, lastUpload>>

\* ============================================================== SealService
VARIABLES
  enableServerEncryption,  \* config.app.enableServerEncryption
  policyObjectId,          \* config.seal.policyObjectId, <<>> when not set
  sealPc,                  \* position of the running call
  sealOp,                  \* method of the running (or last finished) call
  sealArg,                 \* its arguments
  sealCalls,               \* requests it sent to the Seal client, in order
  sealOutcome,             \* what the call returned or threw
  sealPrev,                \* ciphertext and commitment of the encrypt result before the last
  sealPrivateKey,          \* config.sui.backendPrivateKey as SealService reads it
  sealKeypair,             \* SealService.backendKeypair: "loaded" or "null"
  keyServerEnv,            \* process.env.SEAL_KEY_SERVER_OBJECT_IDS
  serverConfigs,           \* serverConfigs handed to the Seal client at construction
  nodeEnv,                 \* process.env.NODE_ENV, "" when not set
  sealPrevDecrypt          \* arguments and outcome of the decrypt call before the last

sealConfig == <<enableServerEncryption, policyObjectId, sealPrivateKey, sealKeypair,
                keyServerEnv, serverConfigs, nodeEnv>>

sealVars == <<sealConfig, sealPc, sealOp, sealArg, sealCalls, sealOutcome, sealPrev,
              sealPrevDecrypt>>

\* SuiService
VARIABLES
  earnoutPackageId,        \* config.earnout.packageId, "" when not set
  suiPc,                   \* position of the running call
  suiOp,                   \* method of the running (or last finished) call
  suiArg,                  \* its arguments
  suiCalls,                \* client calls issued by it, in order
  suiTmp,                  \* locals kept across awaits
  suiOutcome,              \* what the call returned or threw
  ledger                   \* what the Sui node serves: deal object, event log, record objects

suiVars == <<earnoutPackageId, suiPc, suiOp, suiArg, suiCalls, suiTmp, suiOutcome, ledger>>

\* CreateDealPage
VARIABLES
  uploadedFile,            \* the uploadedFile state: "none" or the selected PDF
  currentAccount,          \* address of the connected wallet, "" when none is connected
  pagePc,                  \* position of the running onSubmit
  pageArg,                 \* the form data it was called with
  pageCalls,               \* hook and router calls it made, in order
  pageTmp,                 \* onSubmit's uploadResponse
  pageToasts               \* toasts it showed, in order

pageVars == <<uploadedFile, currentAccount, pagePc, pageArg, pageCalls, pageTmp, pageToasts>>

vars == <<walrusVars, sealVars, suiVars, pageVars>>

PrivateKeys == {"unset", "valid", "malformed"}

\* constructor: the keypair is set only when a key is configured and decodes
LoadKeypair(privateKey) ==
  IF privateKey = "unset" THEN "null"
  ELSE IF privateKey = "valid" THEN "loaded"   \* Ed25519Keypair.fromSecretKey
  ELSE "null"                                  \* fromSecretKey threw, error logged

\* content identifier the storage network derives for a blob
BlobIdOf(blob) == <<"blob_">> \o JoinHex(blob)

UnknownBlobId == <<"blob_", "?">>

\* identifiers a caller asks about: those the network stores and one it does not
BlobIds == DOMAIN blobs \cup {UnknownBlobId}

\* certificate JSON text returned by the relay (a short one and one over 64 characters)
Certificates == { <<"{", "s", ":", "1", "}">>,
                  [i \in 1..(CommitmentPrefixLen + 3) |-> "x"] }

\* `walrus:${JSON.stringify(certificate).substring(0, 64)}`
formatCertificate(certificate) ==
  <<"walrus:">> \o SubSeq(certificate, 1, Min(CommitmentPrefixLen, Len(certificate)))

EndEpochNoAdd(currentEpoch, requested) == currentEpoch

\* const endEpoch = currentEpoch + config.walrus.storageEpochs
EndEpoch(currentEpoch, requested) == currentEpoch + requested

ExceedsMaxFileSizeOffByOne(len, max) == len > max + 1

\* data.length > config.walrus.maxFileSize
ExceedsMaxFileSize(len, max) == len > max

FileSizeMessage(len, max) ==
  <<"File size ", ToString(len), " exceeds maximum allowed ", ToString(max), " bytes">>

KeypairMessage == <<"Backend keypair not configured for Walrus uploads">>

UploadPrefix == "Failed to upload to Walrus: "
DownloadPrefix == "Failed to download from Walrus: "
BlobInfoPrefix == "Failed to get blob info: "
StorageCostPrefix == "Failed to calculate storage cost: "

NoTmp == [none |-> TRUE]

Passed == [ok |-> TRUE, error |-> NoCause]
Rejected(msg) == [ok |-> FALSE, error |-> ErrorOf(msg)]

UploadChecksKeypairFirst(data) ==
  IF backendKeypair = "null" THEN Rejected(KeypairMessage)
  ELSE IF ExceedsMaxFileSize(Len(data), maxFileSize)
  THEN Rejected(FileSizeMessage(Len(data), maxFileSize))
  ELSE Passed

\* the two guards at the head of upload, in source order
UploadChecks(data) ==
  IF ExceedsMaxFileSize(Len(data), maxFileSize)
  THEN Rejected(FileSizeMessage(Len(data), maxFileSize))
  ELSE IF backendKeypair = "null" THEN Rejected(KeypairMessage)
  ELSE Passed

UploadResultSizeOfId(relayResult, data, currentEpoch) ==
  [blobId |-> relayResult.blobId,
   commitment |-> formatCertificate(relayResult.certificate),
   size |-> Len(relayResult.blobId),
   storageEpochs |-> storageEpochs,
   endEpoch |-> EndEpoch(currentEpoch, storageEpochs)]

\* const uploadResult: WalrusUploadResult = {...} (uploadedAt, a clock reading, left out)
UploadResultOf(relayResult, data, currentEpoch) ==
  [blobId |-> relayResult.blobId,
   commitment |-> formatCertificate(relayResult.certificate),
   size |-> Len(data),
   storageEpochs |-> storageEpochs,
   endEpoch |-> EndEpoch(currentEpoch, storageEpochs)]

Last2(s) == IF Len(s) > 2 THEN SubSeq(s, Len(s) - 1, Len(s)) ELSE s

CanStart == pc \in {"idle", "done"}

Begin(method, a) ==
  /\ op' = method
  /\ arg' = a
  /\ cause' = NoCause
  /\ failedAt' = 0

Fail(prefix, e, issued) ==
  /\ pc' = "done"
  /\ calls' = issued
  /\ cause' = e
  /\ failedAt' = Len(issued)
  /\ outcome' = Thrown(WrapError(prefix, e))

\* ------------------------------------------------------------------- upload
\* upload(): from entry to the first await (size check, keypair check)
UploadCall(data) ==
  /\ CanStart
  /\ Cardinality(DOMAIN blobs \cup {BlobIdOf(Uint8ArrayFrom(data))}) <= MaxBlobs
  /\ Begin("upload", data)
  /\ calls' = <<>>
  /\ IF ~UploadChecks(data).ok
     THEN /\ pc' = "done"
          /\ tmp' = NoTmp
          /\ outcome' = Thrown(WrapError(UploadPrefix, UploadChecks(data).error))
     ELSE /\ pc' = "relay"
          /\ tmp' = [blob |-> Uint8ArrayFrom(data)]
          /\ outcome' = NoOutcome
  /\ UNCHANGED <<sealVars, suiVars, pageVars, maxFileSize, storageEpochs, backendKeypair, epoch, blobs, uploads, lastUpload>>

\* await walrusClient.writeBlobToUploadRelay(...) rejects
UploadRelayFails(e) ==
  /\ pc = "relay"
  /\ Fail(UploadPrefix, e, Append(calls, "writeBlobToUploadRelay"))
  /\ UNCHANGED <<sealVars, suiVars, pageVars, maxFileSize, storageEpochs, backendKeypair, epoch, blobs, op, arg,
                 tmp, uploads, lastUpload>>

\* await walrusClient.writeBlobToUploadRelay(...) resolves: the network stores the blob
UploadRelayOk(certificate) ==
  /\ pc = "relay"
  /\ calls' = Append(calls, "writeBlobToUploadRelay")
  /\ blobs' = [id \in DOMAIN blobs \cup {BlobIdOf(tmp.blob)} |->
                 IF id = BlobIdOf(tmp.blob) THEN tmp.blob ELSE blobs[id]]
  /\ tmp' = [blob |-> tmp.blob,
             result |-> [blobId |-> BlobIdOf(tmp.blob), certificate |-> certificate],
             storedAtEpoch |-> epoch]
  /\ pc' = "systemState"
  /\ UNCHANGED <<sealVars, suiVars, pageVars, maxFileSize, storageEpochs, backendKeypair, epoch, op, arg, cause,
                 failedAt, outcome, uploads, lastUpload>>

\* await walrusClient.systemState() rejects
UploadSystemStateFails(e) ==
  /\ pc = "systemState"
  /\ Fail(UploadPrefix, e, Append(calls, "systemState"))
  /\ UNCHANGED <<sealVars, suiVars, pageVars, maxFileSize, storageEpochs, backendKeypair, epoch, blobs, op, arg,
                 tmp, uploads, lastUpload>>

\* await walrusClient.systemState() resolves; the result is built and returned
UploadSystemStateOk ==
  /\ pc = "systemState"
  /\ calls' = Append(calls, "systemState")
  /\ LET currentEpoch == epoch
         uploadResult == UploadResultOf(tmp.result, arg, currentEpoch)
     IN /\ outcome' = Returned(uploadResult)
        /\ tmp' = [blob |-> tmp.blob, result |-> tmp.result,
                   storedAtEpoch |-> tmp.storedAtEpoch, currentEpoch |-> currentEpoch]
        /\ uploads' = Last2(Append(uploads,
                         [currentEpoch |-> currentEpoch, endEpoch |-> uploadResult.endEpoch]))
        /\ lastUpload' = [data |-> arg, blobId |-> uploadResult.blobId]
  /\ pc' = "done"
  /\ UNCHANGED <<sealVars, suiVars, pageVars, maxFileSize, storageEpochs, backendKeypair, epoch, blobs, op, arg,
                 cause, failedAt>>

\* ----------------------------------------------------------------- download
\* download(): issues readBlob
DownloadCall(blobId) ==
  /\ CanStart
  /\ Begin("download", blobId)
  /\ calls' = <<>>
  /\ pc' = "readBlob"
  /\ tmp' = NoTmp
  /\ outcome' = NoOutcome
  /\ UNCHANGED <<sealVars, suiVars, pageVars, maxFileSize, storageEpochs, backendKeypair, epoch, blobs, uploads, lastUpload>>

\* await walrusClient.readBlob(...) rejects (always for an unknown id; for a
\* stored blob when no storage node serves it)
DownloadReadFails(e) ==
  /\ pc = "readBlob"
  /\ Fail(DownloadPrefix, e, Append(calls, "readBlob"))
  /\ UNCHANGED <<sealVars, suiVars, pageVars, maxFileSize, storageEpochs, backendKeypair, epoch, blobs, op, arg,
                 tmp, uploads, lastUpload>>

\* await walrusClient.readBlob(...) resolves with the stored bytes
DownloadReadOk ==
  /\ pc = "readBlob"
  /\ arg \in DOMAIN blobs
  /\ calls' = Append(calls, "readBlob")
  /\ outcome' = Returned(BufferFrom(blobs[arg]))
  /\ pc' = "done"
  /\ UNCHANGED <<sealVars, suiVars, pageVars, maxFileSize, storageEpochs, backendKeypair, epoch, blobs, op, arg,
                 cause, failedAt, tmp, uploads, lastUpload>>

\* -------------------------------------------------------------- getBlobInfo
DecimalDigits == <<"0", "1", "2", "3", "4", "5", "6", "7", "8", "9">>

DigitValue(c) == CHOOSE d \in 0..9 : DecimalDigits[d + 1] = c

RECURSIVE Number(_)
\* Number(text) for a string of decimal digits
Number(text) ==
  IF text = <<>> THEN 0
  ELSE 10 * Number(SubSeq(text, 1, Len(text) - 1)) + DigitValue(text[Len(text)])

\* primary_hash values: absent, or an enum value with its $kind tag
NoPrimaryHash == [present |-> FALSE, kind |-> "", Digest |-> <<>>]
DigestHash(bytes) == [present |-> TRUE, kind |-> "Digest", Digest |-> bytes]
TaggedHash(kind) == [present |-> TRUE, kind |-> kind, Digest |-> <<>>]

Digests == { <<0, 10>>, <<255, 16, 9>> }

PrimaryHashes ==
  {NoPrimaryHash, TaggedHash("Empty"), TaggedHash("Unknown")}
    \cup {DigestHash(d) : d \in Digests}

HashEntry(ph) == [primary_hash |-> ph]

\* metadata.metadata.V1.hashes: absent, empty, one entry, or two entries
HashLists ==
  {[present |-> FALSE, list |-> <<>>], [present |-> TRUE, list |-> <<>>]}
    \cup {[present |-> TRUE, list |-> <<HashEntry(ph)>>] : ph \in PrimaryHashes}
    \cup {[present |-> TRUE,
           list |-> <<HashEntry(TaggedHash("Empty")), HashEntry(DigestHash(<<255, 16, 9>>))>>],
          [present |-> TRUE,
           list |-> <<HashEntry(DigestHash(<<0, 10>>)), HashEntry(TaggedHash("Empty"))>>]}

UnencodedLengths == { <<"1", "2">> }

\* what getBlobMetadata can resolve with: V1 present with a length and hashes, or not
Metadatas ==
  {[hasV1 |-> FALSE, unencoded_length |-> <<>>, hashes |-> [present |-> FALSE, list |-> <<>>]]}
    \cup {[hasV1 |-> TRUE, unencoded_length |-> n, hashes |-> h] :
            n \in UnencodedLengths, h \in HashLists}

UnknownCommitment == <<"walrus:unknown">>

\* metadata.metadata.V1.hashes[0]?.primary_hash
FirstPrimaryHash(hashes) ==
  IF Len(hashes.list) = 0 THEN NoPrimaryHash ELSE hashes.list[1].primary_hash

formatMetadataAnyTag(metadata) ==
  IF ~metadata.hasV1 \/ ~metadata.hashes.present THEN UnknownCommitment
  ELSE LET primaryHash == FirstPrimaryHash(metadata.hashes)
       IN IF primaryHash.present
          THEN <<"walrus:">> \o JoinHex(primaryHash.Digest)
          ELSE UnknownCommitment

\* formatMetadata: a TypeError on a missing V1 or hash list is caught and logged
formatMetadata(metadata) ==
  IF ~metadata.hasV1 \/ ~metadata.hashes.present THEN UnknownCommitment
  ELSE LET primaryHash == FirstPrimaryHash(metadata.hashes)
       IN IF primaryHash.present /\ primaryHash.kind = "Digest"
          THEN <<"walrus:">> \o JoinHex(primaryHash.Digest)
          ELSE UnknownCommitment

TypeErrorV1 == ErrorOf(<<"Cannot read properties of undefined (reading 'unencoded_length')">>)

\* getBlobInfo(): issues getVerifiedBlobStatus
GetBlobInfoCall(blobId) ==
  /\ CanStart
  /\ Begin("getBlobInfo", blobId)
  /\ calls' = <<>>
  /\ pc' = "status"
  /\ tmp' = NoTmp
  /\ outcome' = NoOutcome
  /\ UNCHANGED <<sealVars, suiVars, pageVars, maxFileSize, storageEpochs, backendKeypair, epoch, blobs, uploads, lastUpload>>

\* await walrusClient.getVerifiedBlobStatus(...) rejects
BlobStatusFails(e) ==
  /\ pc = "status"
  /\ Fail(BlobInfoPrefix, e, Append(calls, "getVerifiedBlobStatus"))
  /\ UNCHANGED <<sealVars, suiVars, pageVars, maxFileSize, storageEpochs, backendKeypair, epoch, blobs, op, arg,
                 tmp, uploads, lastUpload>>

\* await walrusClient.getVerifiedBlobStatus(...) resolves
BlobStatusOk ==
  /\ pc = "status"
  /\ calls' = Append(calls, "getVerifiedBlobStatus")
  /\ pc' = "metadata"
  /\ UNCHANGED <<sealVars, suiVars, pageVars, maxFileSize, storageEpochs, backendKeypair, epoch, blobs, op, arg,
                 cause, failedAt, tmp, outcome, uploads, lastUpload>>

\* await walrusClient.getBlobMetadata(...) rejects
BlobMetadataFails(e) ==
  /\ pc = "metadata"
  /\ Fail(BlobInfoPrefix, e, Append(calls, "getBlobMetadata"))
  /\ UNCHANGED <<sealVars, suiVars, pageVars, maxFileSize, storageEpochs, backendKeypair, epoch, blobs, op, arg,
                 tmp, uploads, lastUpload>>

\* await walrusClient.getBlobMetadata(...) resolves
BlobMetadataOk(metadata) ==
  /\ pc = "metadata"
  /\ calls' = Append(calls, "getBlobMetadata")
  /\ tmp' = [metadata |-> metadata]
  /\ pc' = "infoState"
  /\ UNCHANGED <<sealVars, suiVars, pageVars, maxFileSize, storageEpochs, backendKeypair, epoch, blobs, op, arg,
                 cause, failedAt, outcome, uploads, lastUpload>>

\* await walrusClient.systemState() rejects
BlobSystemStateFails(e) ==
  /\ pc = "infoState"
  /\ Fail(BlobInfoPrefix, e, Append(calls, "systemState"))
  /\ UNCHANGED <<sealVars, suiVars, pageVars, maxFileSize, storageEpochs, backendKeypair, epoch, blobs, op, arg,
                 tmp, uploads, lastUpload>>

\* await walrusClient.systemState() resolves; blobInfo is built (size first,
\* then commitment) and returned, or reading the size throws
BlobSystemStateOk ==
  /\ pc = "infoState"
  /\ calls' = Append(calls, "systemState")
  /\ outcome' =
       IF ~tmp.metadata.hasV1
       THEN Thrown(WrapError(BlobInfoPrefix, TypeErrorV1))
       ELSE Returned([blobId |-> arg,
                      size |-> Number(tmp.metadata.unencoded_length),
                      commitment |-> formatMetadata(tmp.metadata),
                      storageEpochs |-> 0,
                      endEpoch |-> epoch])
  /\ pc' = "done"
  /\ UNCHANGED <<sealVars, suiVars, pageVars, maxFileSize, storageEpochs, backendKeypair, epoch, blobs, op, arg,
                 cause, failedAt, tmp, uploads, lastUpload>>

\* ----------------------------------------------------- calculateStorageCost
CostSizes == {0, 1}
CostEpochs == {0, 1}   \* 0 stands for the omitted argument

\* epochs: number = config.walrus.storageEpochs
DefaultEpochs(given) == IF given = 0 THEN storageEpochs ELSE given

\* what walrusClient.storageCost resolves with
StorageCostOf(size, epochs) ==
  [storageCost |-> size * epochs, writeCost |-> size, totalCost |-> size * epochs + size]

\* calculateStorageCost(): issues storageCost
StorageCostCall(size, epochs) ==
  /\ CanStart
  /\ Begin("calculateStorageCost", [size |-> size, epochs |-> DefaultEpochs(epochs)])
  /\ calls' = <<>>
  /\ pc' = "storageCost"
  /\ tmp' = NoTmp
  /\ outcome' = NoOutcome
  /\ UNCHANGED <<sealVars, suiVars, pageVars, maxFileSize, storageEpochs, backendKeypair, epoch, blobs, uploads, lastUpload>>

\* await walrusClient.storageCost(...) rejects
StorageCostFails(e) ==
  /\ pc = "storageCost"
  /\ Fail(StorageCostPrefix, e, Append(calls, "storageCost"))
  /\ UNCHANGED <<sealVars, suiVars, pageVars, maxFileSize, storageEpochs, backendKeypair, epoch, blobs, op, arg,
                 tmp, uploads, lastUpload>>

\* await walrusClient.storageCost(...) resolves; the cost is returned as is
StorageCostOk ==
  /\ pc = "storageCost"
  /\ calls' = Append(calls, "storageCost")
  /\ outcome' = Returned(StorageCostOf(arg.size, arg.epochs))
  /\ pc' = "done"
  /\ UNCHANGED <<sealVars, suiVars, pageVars, maxFileSize, storageEpochs, backendKeypair, epoch, blobs, op, arg,
                 cause, failedAt, tmp, uploads, lastUpload>>

\* ---------------------------------------------------------- storage network
\* the committee moves to the next epoch
EpochAdvance ==
  /\ epoch < MaxEpoch
  /\ epoch' = epoch + 1
  /\ UNCHANGED <<sealVars, suiVars, pageVars, maxFileSize, storageEpochs, backendKeypair, blobs, pc, op, arg, calls,
                 cause, failedAt, tmp, outcome, uploads, lastUpload>>

NoUpload == [data |-> <<>>, blobId |-> <<>>]

WalrusInit ==
  /\ maxFileSize \in 1..MaxCfgSize
  /\ storageEpochs \in 1..MaxCfgEpochs
  /\ backendKeypair \in {LoadKeypair(k) : k \in PrivateKeys}
  /\ epoch = 1
  /\ blobs = <<>>
  /\ pc = "idle"
  /\ op = "none"
  /\ arg = <<>>
  /\ calls = <<>>
  /\ cause = NoCause
  /\ failedAt = 0
  /\ tmp = NoTmp
  /\ outcome = NoOutcome
  /\ uploads = <<>>
  /\ lastUpload = NoUpload

WalrusNext ==
  \/ \E data \in Payloads : UploadCall(data)
  \/ \E e \in ClientFailures : UploadRelayFails(e)
  \/ \E c \in Certificates : UploadRelayOk(c)
  \/ \E e \in ClientFailures : UploadSystemStateFails(e)
  \/ UploadSystemStateOk
  \/ \E id \in BlobIds : DownloadCall(id)
  \/ \E e \in ClientFailures : DownloadReadFails(e)
  \/ DownloadReadOk
  \/ \E id \in BlobIds : GetBlobInfoCall(id)
  \/ \E e \in ClientFailures : BlobStatusFails(e)
  \/ BlobStatusOk
  \/ \E e \in ClientFailures : BlobMetadataFails(e)
  \/ \E m \in Metadatas : BlobMetadataOk(m)
  \/ \E e \in ClientFailures : BlobSystemStateFails(e)
  \/ BlobSystemStateOk
  \/ \E size \in CostSizes, epochs \in CostEpochs : StorageCostCall(size, epochs)
  \/ \E e \in ClientFailures : StorageCostFails(e)
  \/ StorageCostOk
  \/ EpochAdvance

\* ------------------------------------------------------------------ encrypt
DigestLength == 32
Threshold == 2

PolicyChars == <<"0", "x", "1", "2", ":", "m", "p">>

\* policy identifiers: unset, a bare package id, <package>::<module>,
\* <package>::<module>::<name>, and one with three colons in a row
PolicySet ==
  { <<>>,
    <<"0", "x", "1">>,
    <<"0", "x", "1", ":", ":", "m">>,
    <<"0", "x", "2", ":", ":", "m", ":", ":", "p">>,
    <<"0", "x", "2", ":", ":", ":", "m">> }

ConfiguredPolicies == { <<>>, <<"0", "x", "1", ":", ":", "m">> }

DealIds == <<"0xdea1", "0xdea2">>

Plaintexts == { <<>>, <<7>>, <<255, 0>> }

Nonces == {0, 1}

\* index of the first "::" in s, 0 if there is none
SeparatorAt(s) ==
  IF \E i \in 1..(Len(s) - 1) : s[i] = ":" /\ s[i + 1] = ":"
  THEN CHOOSE i \in 1..(Len(s) - 1) :
         /\ s[i] = ":" /\ s[i + 1] = ":"
         /\ \A k \in 1..(i - 1) : ~(s[k] = ":" /\ s[k + 1] = ":")
  ELSE 0

\* policyObjectId.split('::')[0]
PackageIdOf(s) == IF SeparatorAt(s) = 0 THEN s ELSE SubSeq(s, 1, SeparatorAt(s) - 1)

CharCode(c) == CHOOSE i \in DOMAIN PolicyChars : PolicyChars[i] = c

DealCode(id) == CHOOSE i \in DOMAIN DealIds : DealIds[i] = id

\* bytes of the encrypted object the Seal client resolves with: threshold,
\* identity, package id, then the masked data
EncryptedObjectBytes(request, nonce) ==
  <<request.threshold, DealCode(request.id), Len(request.packageId)>>
    \o [i \in 1..Len(request.packageId) |-> CharCode(request.packageId[i])]
    \o <<nonce>>
    \o [i \in 1..Len(request.data) |-> (request.data[i] + 16 * nonce + 1) % 256]

RECURSIVE WeightedSum(_, _)
WeightedSum(bytes, k) ==
  IF bytes = <<>> THEN 0
  ELSE (Len(bytes) + k) * bytes[Len(bytes)] + WeightedSum(SubSeq(bytes, 1, Len(bytes) - 1), k)

\* crypto.subtle.digest('SHA-256', buffer): a fixed function from a byte string
\* to DigestLength bytes
Sha256(bytes) ==
  [i \in 1..DigestLength |-> (WeightedSum(bytes, i) + 5 * i + Len(bytes)) % 256]

RECURSIVE HashHexUnpadded(_)
HashHexUnpadded(hashArray) ==
  IF hashArray = <<>> THEN <<>>
  ELSE ByteToHexUnpadded(Head(hashArray)) \o HashHexUnpadded(Tail(hashArray))

RECURSIVE HashHex(_)
\* hashArray.map((b) => b.toString(16).padStart(2, '0')).join('')
HashHex(hashArray) ==
  IF hashArray = <<>> THEN <<>>
  ELSE ByteToHex(Head(hashArray)) \o HashHex(Tail(hashArray))

generateCommitmentUnpadded(data) ==
  <<"sha256:">> \o HashHexUnpadded(Uint8ArrayFrom(Sha256(BufferFrom(data))))

\* generateCommitment: `sha256:${hashHex}`
generateCommitment(data) ==
  <<"sha256:">> \o HashHex(Uint8ArrayFrom(Sha256(BufferFrom(data))))

DisabledMessage == <<"Server-side encryption is disabled">>
NoPolicyMessage == <<"Seal policy object ID is not configured">>
EncryptPrefix == "Failed to encrypt data: "

EncryptChecksPolicyFirst ==
  IF policyObjectId = <<>> THEN Rejected(NoPolicyMessage)
  ELSE IF ~enableServerEncryption THEN Rejected(DisabledMessage)
  ELSE Passed

\* the two guards at the head of encrypt, in source order
EncryptChecks ==
  IF ~enableServerEncryption THEN Rejected(DisabledMessage)
  ELSE IF policyObjectId = <<>> THEN Rejected(NoPolicyMessage)
  ELSE Passed

EncryptRequestWholeId(plaintext, encryptionConfig) ==
  [method |-> "encrypt",
   threshold |-> Threshold,
   packageId |-> encryptionConfig.policyObjectId,
   id |-> encryptionConfig.dealId,
   data |-> Uint8ArrayFrom(plaintext)]

\* the argument of sealClient.encrypt({...})
EncryptRequest(plaintext, encryptionConfig) ==
  [method |-> "encrypt",
   threshold |-> Threshold,
   packageId |-> PackageIdOf(encryptionConfig.policyObjectId),
   id |-> encryptionConfig.dealId,
   data |-> Uint8ArrayFrom(plaintext)]

NoEncryption == [ciphertext |-> <<>>, commitment |-> <<>>]

SealCanStart == sealPc \in {"idle", "done"}

\* encrypt(): the two guards (thrown as they are), then the request to the client
EncryptCall(plaintext, encryptionConfig) ==
  /\ SealCanStart
  /\ sealOp' = "encrypt"
  /\ sealArg' = [plaintext |-> plaintext, encryptionConfig |-> encryptionConfig]
  /\ IF ~EncryptChecks.ok
     THEN /\ sealPc' = "done"
          /\ sealCalls' = <<>>
          /\ sealOutcome' = Thrown(EncryptChecks.error)
     ELSE /\ sealPc' = "encrypt"
          /\ sealCalls' = <<EncryptRequest(plaintext, encryptionConfig)>>
          /\ sealOutcome' = NoOutcome
  /\ sealPrev' = IF sealOp = "encrypt" /\ sealOutcome.kind = "returned"
                 THEN [ciphertext |-> sealOutcome.value.ciphertext,
                       commitment |-> sealOutcome.value.commitment]
                 ELSE sealPrev
  /\ UNCHANGED <<walrusVars, suiVars, pageVars, sealConfig, sealPrevDecrypt>>

\* await sealClient.encrypt(...) rejects
EncryptFails(e) ==
  /\ sealPc = "encrypt"
  /\ sealPc' = "done"
  /\ sealOutcome' = Thrown(WrapError(EncryptPrefix, e))
  /\ UNCHANGED <<walrusVars, suiVars, pageVars, sealConfig, sealOp, sealArg, sealCalls, sealPrev,
                 sealPrevDecrypt>>

\* await sealClient.encrypt(...) resolves; commitment and result are built
EncryptOk(nonce) ==
  /\ sealPc = "encrypt"
  /\ LET encryptedObject == EncryptedObjectBytes(sealCalls[Len(sealCalls)], nonce)
         commitment == generateCommitment(Uint8ArrayFrom(encryptedObject))
     IN sealOutcome' = Returned([ciphertext |-> BufferFrom(encryptedObject),
                                 commitment |-> commitment,
                                 policyObjectId |-> sealArg.encryptionConfig.policyObjectId])
  /\ sealPc' = "done"
  /\ UNCHANGED <<walrusVars, suiVars, pageVars, sealConfig, sealOp, sealArg, sealCalls, sealPrev,
                 sealPrevDecrypt>>

\* ------------------------------------------------------ getKeyServerConfigs
UnsetEnv == [set |-> FALSE, text |-> <<>>]
EnvOf(text) == [set |-> TRUE, text |-> text]

\* values of SEAL_KEY_SERVER_OBJECT_IDS: not set, set to nothing, one id, two
\* ids, two ids with blanks around them
KeyServerEnvs ==
  { UnsetEnv,
    EnvOf(<<>>),
    EnvOf(<<"0", "x", "a">>),
    EnvOf(<<"0", "x", "a", ",", "0", "x", "b">>),
    EnvOf(<<" ", "0", "x", "a", " ", ",", " ", "0", "x", "b">>) }

HasComma(text) == \E i \in DOMAIN text : text[i] = ","

FirstComma(text) ==
  CHOOSE i \in DOMAIN text : text[i] = "," /\ \A k \in 1..(i - 1) : text[k] # ","

RECURSIVE SplitComma(_)
\* text.split(',')
SplitComma(text) ==
  IF ~HasComma(text) THEN <<text>>
  ELSE <<SubSeq(text, 1, FirstComma(text) - 1)>>
         \o SplitComma(SubSeq(text, FirstComma(text) + 1, Len(text)))

RECURSIVE TrimStart(_)
TrimStart(text) ==
  IF text # <<>> /\ Head(text) = " " THEN TrimStart(Tail(text)) ELSE text

RECURSIVE TrimEnd(_)
TrimEnd(text) ==
  IF text # <<>> /\ text[Len(text)] = " "
  THEN TrimEnd(SubSeq(text, 1, Len(text) - 1))
  ELSE text

\* String.prototype.trim
Trim(text) == TrimEnd(TrimStart(text))

KeyServerWeight == 1

\* process.env.SEAL_KEY_SERVER_OBJECT_IDS?.split(',') || []
KeyServerObjectIds(env) == IF env.set THEN SplitComma(env.text) ELSE <<>>

\* getKeyServerConfigs: one config per split item, trimmed, weight 1
getKeyServerConfigs(env) ==
  [i \in 1..Len(KeyServerObjectIds(env)) |->
     [objectId |-> Trim(KeyServerObjectIds(env)[i]), weight |-> KeyServerWeight]]

\* constructor of SealService: same keypair loading as WalrusService
SealLoadKeypair(privateKey) ==
  IF privateKey = "unset" THEN "null"
  ELSE IF privateKey = "valid" THEN "loaded"
  ELSE "null"

\* ------------------------------------------------------------------ decrypt
TtlMin == 10

Addresses == {"0xbuyer", "0xeve"}

\* participants the ledger records for a deal (every deal here has the same three)
DealParticipants(dealId) == {"0xbuyer", "0xseller", "0xauditor"}

MalformedCiphertext == <<1>>

\* ciphertexts handed to decrypt: one encrypted object per deal, and bytes that
\* are no encrypted object
Ciphertexts ==
  {EncryptedObjectBytes([threshold |-> Threshold, id |-> DealIds[d],
                         packageId |-> <<"0", "x", "1">>, data |-> <<7>>], 1) :
     d \in DOMAIN DealIds}
    \cup {MalformedCiphertext}

\* whether EncryptedObject.parse accepts the bytes
Parses(data) ==
  /\ Len(data) >= 4
  /\ data[2] \in DOMAIN DealIds
  /\ Len(data) >= 4 + data[3]

\* EncryptedObject.parse(data): the identity, package id and threshold in the bytes
ParseEncryptedObject(data) ==
  [id |-> DealIds[data[2]],
   packageId |-> [i \in 1..data[3] |-> PolicyChars[data[3 + i]]],
   threshold |-> data[1]]

\* what sealClient.decrypt resolves with: the data under the mask
PlaintextOf(data) ==
  LET n == data[3]
      nonce == data[4 + n]
  IN [i \in 1..(Len(data) - 4 - n) |-> (data[4 + n + i] + 256 - 16 * nonce - 1) % 256]

DecryptDisabledMessage == <<"Server-side decryption is disabled">>
DecryptKeypairMessage == <<"Backend keypair is not configured for decryption">>
DecryptPrefix == "Failed to decrypt data: "
ParseError == ErrorOf(<<"Invalid encrypted object">>)
TypeErrorSplit == ErrorOf(<<"Cannot read properties of undefined (reading 'split')">>)

DecryptChecksNoKeypairCheck ==
  IF ~enableServerEncryption THEN Rejected(DecryptDisabledMessage)
  ELSE Passed

\* the two guards at the head of decrypt, in source order
DecryptChecks ==
  IF ~enableServerEncryption THEN Rejected(DecryptDisabledMessage)
  ELSE IF sealKeypair = "null" THEN Rejected(DecryptKeypairMessage)
  ELSE Passed

\* const txBytes = new Uint8Array(0)
ApprovalTxBytes(dealId) == <<>>

\* the argument of SessionKey.create({...})
SessionRequest ==
  [method |-> "SessionKey.create",
   packageId |-> PackageIdOf(policyObjectId),
   ttlMin |-> TtlMin,
   signer |-> sealKeypair]

\* the argument of sealClient.fetchKeys({...})
FetchKeysRequest(parsedEncryptedBlob, dealId) ==
  [method |-> "fetchKeys",
   ids |-> <<parsedEncryptedBlob.id>>,
   txBytes |-> ApprovalTxBytes(dealId),
   threshold |-> Threshold]

\* the argument of sealClient.decrypt({...})
DecryptRequest(data, dealId) ==
  [method |-> "decrypt",
   data |-> data,
   txBytes |-> ApprovalTxBytes(dealId),
   checkShareConsistency |-> TRUE]

NoDecrypt == [arg |-> <<>>, outcome |-> NoOutcome]

\* decrypt(): the two guards (thrown as they are), then the dynamic import
DecryptCall(ciphertext, dealId, userAddress) ==
  /\ SealCanStart
  /\ sealOp' = "decrypt"
  /\ sealArg' = [ciphertext |-> ciphertext, dealId |-> dealId, userAddress |-> userAddress]
  /\ sealCalls' = <<>>
  /\ IF ~DecryptChecks.ok
     THEN /\ sealPc' = "done"
          /\ sealOutcome' = Thrown(DecryptChecks.error)
     ELSE /\ sealPc' = "import"
          /\ sealOutcome' = NoOutcome
  /\ sealPrevDecrypt' = IF sealOp = "decrypt" /\ sealPc = "done"
                        THEN [arg |-> sealArg, outcome |-> sealOutcome]
                        ELSE sealPrevDecrypt
  /\ UNCHANGED <<walrusVars, suiVars, pageVars, sealConfig, sealPrev>>

\* after the import: EncryptedObject.parse, then SessionKey.create is requested;
\* a parse error or an unset policy id goes to the catch block
DecryptParse ==
  /\ sealPc = "import"
  /\ IF ~Parses(Uint8ArrayFrom(sealArg.ciphertext))
     THEN /\ sealPc' = "done"
          /\ sealOutcome' = Thrown(WrapError(DecryptPrefix, ParseError))
          /\ UNCHANGED sealCalls
     ELSE IF policyObjectId = <<>>
     THEN /\ sealPc' = "done"
          /\ sealOutcome' = Thrown(WrapError(DecryptPrefix, TypeErrorSplit))
          /\ sealCalls' = Append(sealCalls, [method |-> "EncryptedObject.parse"])
     ELSE /\ sealPc' = "session"
          /\ sealCalls' = sealCalls \o <<[method |-> "EncryptedObject.parse"], SessionRequest>>
          /\ UNCHANGED sealOutcome
  /\ UNCHANGED <<walrusVars, suiVars, pageVars, sealConfig, sealOp, sealArg, sealPrev, sealPrevDecrypt>>

\* a pending request of decrypt rejects: SessionKey.create, fetchKeys or decrypt
DecryptStepFails(e) ==
  /\ sealPc \in {"session", "fetchKeys", "decrypt"}
  /\ sealPc' = "done"
  /\ sealOutcome' = Thrown(WrapError(DecryptPrefix, e))
  /\ UNCHANGED <<walrusVars, suiVars, pageVars, sealConfig, sealOp, sealArg, sealCalls, sealPrev,
                 sealPrevDecrypt>>

SessionOkSkipsFetch ==
  /\ sealPc = "session"
  /\ sealCalls' = Append(sealCalls,
                         DecryptRequest(Uint8ArrayFrom(sealArg.ciphertext), sealArg.dealId))
  /\ sealPc' = "decrypt"
  /\ UNCHANGED <<walrusVars, suiVars, pageVars, sealConfig, sealOp, sealArg, sealOutcome, sealPrev,
                 sealPrevDecrypt>>

\* await SessionKey.create(...) resolves; fetchKeys is requested
SessionOk ==
  /\ sealPc = "session"
  /\ sealCalls' = Append(sealCalls,
       FetchKeysRequest(ParseEncryptedObject(Uint8ArrayFrom(sealArg.ciphertext)),
                        sealArg.dealId))
  /\ sealPc' = "fetchKeys"
  /\ UNCHANGED <<walrusVars, suiVars, pageVars, sealConfig, sealOp, sealArg, sealOutcome, sealPrev,
                 sealPrevDecrypt>>

\* await sealClient.fetchKeys(...) resolves; decrypt is requested
FetchKeysOk ==
  /\ sealPc = "fetchKeys"
  /\ sealCalls' = Append(sealCalls,
                         DecryptRequest(Uint8ArrayFrom(sealArg.ciphertext), sealArg.dealId))
  /\ sealPc' = "decrypt"
  /\ UNCHANGED <<walrusVars, suiVars, pageVars, sealConfig, sealOp, sealArg, sealOutcome, sealPrev,
                 sealPrevDecrypt>>

\* await sealClient.decrypt(...) resolves; the result is built and returned
DecryptOk ==
  /\ sealPc = "decrypt"
  /\ sealOutcome' = Returned([plaintext |-> BufferFrom(PlaintextOf(sealCalls[Len(sealCalls)].data)),
                              metadata |-> [policyObjectId |-> policyObjectId]])
  /\ sealPc' = "done"
  /\ UNCHANGED <<walrusVars, suiVars, pageVars, sealConfig, sealOp, sealArg, sealCalls, sealPrev,
                 sealPrevDecrypt>>

\* ------------------------------------------------------------- verifyAccess
NodeEnvs == {"development", "production", ""}

NoRole == [present |-> FALSE, v |-> ""]
RequiredRoles == {NoRole} \cup {[present |-> TRUE, v |-> r] : r \in {"buyer", "seller", "auditor"}}

NotImplementedReason == "Access verification not yet implemented"

AccessResultGrantsEverywhere(env) ==
  [hasAccess |-> TRUE, role |-> [present |-> TRUE, v |-> "buyer"], reason |-> NoRole]

\* the AccessVerificationResult verifyAccess returns under NODE_ENV = env
AccessResult(env) ==
  IF env = "development"
  THEN [hasAccess |-> TRUE, role |-> [present |-> TRUE, v |-> "buyer"], reason |-> NoRole]
  ELSE [hasAccess |-> FALSE, role |-> NoRole,
        reason |-> [present |-> TRUE, v |-> NotImplementedReason]]

\* verifyAccess(): no request is sent; the result depends on NODE_ENV alone
VerifyAccess(dealId, userAddress, requiredRole) ==
  /\ SealCanStart
  /\ sealOp' = "verifyAccess"
  /\ sealArg' = [dealId |-> dealId, userAddress |-> userAddress, requiredRole |-> requiredRole]
  /\ sealCalls' = <<>>
  /\ sealPc' = "done"
  /\ sealOutcome' = Returned(AccessResult(nodeEnv))
  /\ UNCHANGED <<walrusVars, suiVars, pageVars, sealConfig, sealPrev, sealPrevDecrypt>>

EncryptionConfigs ==
  {[policyObjectId |-> pol, dealId |-> DealIds[d]] : pol \in PolicySet, d \in DOMAIN DealIds}

SealIdle ==
  /\ sealPc = "idle"
  /\ sealOp = "none"
  /\ sealArg = <<>>
  /\ sealCalls = <<>>
  /\ sealOutcome = NoOutcome
  /\ sealPrev = NoEncryption
  /\ sealPrevDecrypt = NoDecrypt

\* the constructor: keypair loading and the key server configs of the client
SealConstructed(privateKey, env) ==
  /\ sealPrivateKey = privateKey
  /\ sealKeypair = SealLoadKeypair(privateKey)
  /\ keyServerEnv = env
  /\ serverConfigs = getKeyServerConfigs(env)

SealInit ==
  /\ nodeEnv = "production"
  /\ enableServerEncryption \in BOOLEAN
  /\ policyObjectId \in ConfiguredPolicies
  /\ \E env \in KeyServerEnvs : SealConstructed("valid", env)
  /\ SealIdle

DecryptInit ==
  /\ nodeEnv \in NodeEnvs
  /\ enableServerEncryption \in BOOLEAN
  /\ policyObjectId \in ConfiguredPolicies
  /\ \E k \in PrivateKeys : SealConstructed(k, EnvOf(<<"0", "x", "a", ",", "0", "x", "b">>))
  /\ SealIdle

DecryptNext ==
  \/ \E d \in DOMAIN DealIds, a \in Addresses, r \in RequiredRoles :
        VerifyAccess(DealIds[d], a, r)
  \/ \E c \in Ciphertexts, d \in DOMAIN DealIds, a \in Addresses :
        DecryptCall(c, DealIds[d], a)
  \/ DecryptParse
  \/ \E e \in ClientFailures : DecryptStepFails(e)
  \/ SessionOk
  \/ FetchKeysOk
  \/ DecryptOk

SealNext ==
  \/ \E plaintext \in Plaintexts, c \in EncryptionConfigs : EncryptCall(plaintext, c)
  \/ \E e \in ClientFailures : EncryptFails(e)
  \/ \E nonce \in Nonces : EncryptOk(nonce)

\* =============================================================== SuiService
MaxRecords == 2
MaxEvents == 5

\* a field of a parsed Move object: present with a value, or absent (undefined)
Field(v) == [present |-> TRUE, v |-> v]
Absent == [present |-> FALSE, v |-> ""]
AbsentNum == [present |-> FALSE, v |-> 0]

\* JavaScript truthiness of a string field and of a number field
Truthy(f) == f.present /\ f.v # ""
TruthyNum(f) == f.present /\ f.v # 0

\* a || b || ''
OrElse(a, b) == IF Truthy(a) THEN a.v ELSE IF Truthy(b) THEN b.v ELSE ""

\* a || 0
OrZero(a) == IF TruthyNum(a) THEN a.v ELSE 0

NoBlobFields ==
  [blob_id |-> Absent, blobId |-> Absent, period_id |-> Absent, periodId |-> Absent,
   data_type |-> Absent, dataType |-> Absent, size |-> AbsentNum,
   uploaded_at |-> AbsentNum, uploadedAt |-> AbsentNum,
   uploader |-> Absent, uploaderAddress |-> Absent]

SnakeBlob ==
  [NoBlobFields EXCEPT !.blob_id = Field("b1"), !.period_id = Field("p1"),
                       !.data_type = Field("csv"), !.size = Field(5),
                       !.uploaded_at = Field(1), !.uploader = Field("0xbuyer")]

CamelBlob ==
  [NoBlobFields EXCEPT !.blobId = Field("b1"), !.periodId = Field("p1"),
                       !.dataType = Field("csv"), !.size = Field(5),
                       !.uploadedAt = Field(1000), !.uploaderAddress = Field("0xbuyer")]

BothBlob ==
  [SnakeBlob EXCEPT !.blobId = Field("b2"), !.periodId = Field("p2"),
                    !.dataType = Field("pdf"), !.uploaderAddress = Field("0xseller")]

EmptySnakeBlob == [BothBlob EXCEPT !.blob_id = Field("")]

NoIdBlob == [SnakeBlob EXCEPT !.blob_id = Absent]

\* elements a walrus_blobs vector can hold
RawBlobs == {SnakeBlob, CamelBlob, BothBlob, EmptySnakeBlob, NoIdBlob}

RECURSIVE SeqsUpTo(_, _)
SeqsUpTo(S, n) ==
  IF n = 0 THEN {<<>>}
  ELSE SeqsUpTo(S, n - 1)
         \cup {Append(q, x) : q \in {r \in SeqsUpTo(S, n - 1) : Len(r) = n - 1}, x \in S}

\* fields.walrus_blobs: undefined, a value that is no array, or a vector
NoBlobList == [kind |-> "undefined", items |-> <<>>]
NotAnArray == [kind |-> "string", items |-> <<>>]
BlobListOf(items) == [kind |-> "array", items |-> items]
BlobLists == {NoBlobList, NotAnArray} \cup {BlobListOf(q) : q \in SeqsUpTo(RawBlobs, MaxRecords)}

Roles == [buyer |-> Field("0xbuyer"), seller |-> Field("0xseller"), auditor |-> Field("0xauditor")]
NoRoles == [buyer |-> Absent, seller |-> Absent, auditor |-> Absent]

\* what getObject resolves with
NotFound == [data |-> "none"]
NonMove == [data |-> "package"]
DealObject(walrus_blobs, roles) ==
  [data |-> "moveObject", walrus_blobs |-> walrus_blobs,
   buyer |-> roles.buyer, seller |-> roles.seller, auditor |-> roles.auditor]

DealObjects ==
  {NotFound, NonMove} \cup {DealObject(l, r) : l \in BlobLists, r \in {Roles, NoRoles}}

PlainDeal == DealObject(BlobListOf(<<CamelBlob>>), Roles)

\* the event log: n events; event f is of the other deal, event g carries no
\* record id (0: no such event)
EventAt(i, f, g) ==
  [deal_id |-> IF i = f THEN DealIds[2] ELSE DealIds[1],
   audit_record_id |-> IF i = g THEN AbsentNum ELSE Field(i)]

EventLog(n, f, g) == [i \in 1..n |-> EventAt(i, f, g)]

BlobNames == <<"b1", "b2">>

\* record object i: not on the ledger or no Move object at position b, else a
\* DataAuditRecord whose data id alternates, every third one lacking it; the
\* even ones are audited
RecordObject(i, b) ==
  IF i = b THEN (IF i % 2 = 1 THEN NotFound ELSE NonMove)
  ELSE [data |-> "moveObject",
        data_id |-> IF i % 3 = 0 THEN Absent ELSE Field(BlobNames[(i % 2) + 1]),
        deal_id |-> Field(DealIds[1]),
        period_id |-> Field("p1"),
        uploader |-> Field("0xbuyer"),
        upload_timestamp |-> IF i % 2 = 1 THEN Field(<<"1", "7">>) ELSE Field(<<>>),
        audited |-> Field(i % 2 = 0),
        auditor |-> IF i % 2 = 0 THEN Field(<<"0xauditor">>) ELSE Field(<<>>),
        audit_timestamp |-> IF i % 2 = 0 THEN Field(<<<<"4", "2">>>>) ELSE Absent]

LedgerOf(deal, events, bad) == [deal |-> deal, events |-> events, bad |-> bad]

\* ledgers: every deal object with an empty log, and every log with a plain deal
Ledgers ==
  {LedgerOf(d, <<>>, 0) : d \in DealObjects}
    \cup UNION {{LedgerOf(PlainDeal, EventLog(n, f, g), b) :
                   f \in 0..n, g \in 0..1, b \in 0..n} : n \in 1..MaxEvents}

PackageIds == {"", "0xpkg"}


\* ledger lookup of getObject for a deal id
LookupDeal(dealId) == IF dealId = DealIds[1] THEN ledger.deal ELSE PlainDeal

SuiCanStart == suiPc \in {"idle", "done"}

\* locals of a query: the candidate ids and the loop index, the records pushed,
\* how the event scan and each getObject settled, what getDealAuditRecords gave
NoAudit ==
  [ids |-> <<>>, idx |-> 0, records |-> <<>>, scan |-> "none", fetched |-> <<>>,
   inner |-> NoOutcome]

GetObjectRequest(id, showType) ==
  [method |-> "getObject", id |-> id, showContent |-> TRUE, showType |-> showType]

BlobDataPrefix == "Failed to query on-chain blob data: "
DealNotFound(dealId) == ErrorOf(<<"Deal not found: ", dealId>>)
InvalidDeal == ErrorOf(<<"Invalid Deal object structure">>)

\* the two throws after getObject, caught and wrapped by the method's catch block
DealObjectError(obj, dealId) ==
  IF obj.data = "none" THEN Thrown(WrapError(BlobDataPrefix, DealNotFound(dealId)))
  ELSE Thrown(WrapError(BlobDataPrefix, InvalidDeal))

\* start of a method that reads the deal object: finished at once with `early`
\* when no package id is configured, else getObject is requested
DealQueryCall(method, args, showType, early) ==
  /\ SuiCanStart
  /\ suiOp' = method
  /\ suiArg' = args
  /\ suiTmp' = NoAudit
  /\ IF earnoutPackageId = ""
     THEN /\ suiCalls' = <<>>
          /\ suiPc' = "done"
          /\ suiOutcome' = Returned(early)
     ELSE /\ suiCalls' = <<GetObjectRequest(args.dealId, showType)>>
          /\ suiPc' = "getObject"
          /\ suiOutcome' = NoOutcome
  /\ UNCHANGED <<walrusVars, sealVars, pageVars, earnoutPackageId, ledger>>

\* the pending getObject of a deal query settles and the method finishes
DealQueryDone(method, fetched, result) ==
  /\ suiPc = "getObject"
  /\ suiOp = method
  /\ suiPc' = "done"
  /\ suiTmp' = [suiTmp EXCEPT !.fetched = <<fetched>>]
  /\ suiOutcome' = result
  /\ UNCHANGED <<walrusVars, sealVars, pageVars, earnoutPackageId, ledger, suiOp, suiArg, suiCalls>>

\* walrusBlobs.map(blob => blob.blobId)
BlobIdsOf(items) == [i \in 1..Len(items) |-> items[i].blobId]

BlobIdsResultThrowsOnNoList(obj, dealId) ==
  IF obj.data # "moveObject" THEN DealObjectError(obj, dealId)
  ELSE IF obj.walrus_blobs.kind # "array" THEN DealObjectError(NonMove, dealId)
  ELSE Returned(BlobIdsOf(obj.walrus_blobs.items))

\* getDealBlobIds from the fetched object on
BlobIdsResult(obj, dealId) ==
  IF obj.data # "moveObject" THEN DealObjectError(obj, dealId)
  ELSE IF obj.walrus_blobs.kind # "array" THEN Returned(<<>>)
  ELSE Returned(BlobIdsOf(obj.walrus_blobs.items))

GetDealBlobIdsCall(dealId) ==
  /\ SuiCanStart
  /\ DealQueryCall("getDealBlobIds", [dealId |-> dealId], TRUE, <<>>)

GetDealBlobIdsFails(e) ==
  /\ suiPc = "getObject"
  /\ DealQueryDone("getDealBlobIds", "threw", Thrown(WrapError(BlobDataPrefix, e)))

GetDealBlobIdsOk ==
  /\ suiPc = "getObject"
  /\ DealQueryDone("getDealBlobIds", LookupDeal(suiArg.dealId).data,
                   BlobIdsResult(LookupDeal(suiArg.dealId), suiArg.dealId))

\* new Date(ms).toISOString(), and the same of the current time
IsoOf(ms) == [kind |-> "date", ms |-> ms]
IsoNow == [kind |-> "now", ms |-> 0]

MsPerSecond == 1000

UploadedAtOf(blob) ==
  IF TruthyNum(blob.uploaded_at) THEN IsoOf(blob.uploaded_at.v * MsPerSecond)
  ELSE IF TruthyNum(blob.uploadedAt) THEN IsoOf(blob.uploadedAt.v)
  ELSE IsoNow

BlobReferenceOfCamelFirst(blob) ==
  [blobId |-> OrElse(blob.blobId, blob.blob_id),
   periodId |-> OrElse(blob.periodId, blob.period_id),
   dataType |-> OrElse(blob.dataType, blob.data_type),
   size |-> OrZero(blob.size),
   uploadedAt |-> UploadedAtOf(blob),
   uploaderAddress |-> OrElse(blob.uploaderAddress, blob.uploader)]

\* one element of the map to OnChainBlobReference
BlobReferenceOf(blob) ==
  [blobId |-> OrElse(blob.blob_id, blob.blobId),
   periodId |-> OrElse(blob.period_id, blob.periodId),
   dataType |-> OrElse(blob.data_type, blob.dataType),
   size |-> OrZero(blob.size),
   uploadedAt |-> UploadedAtOf(blob),
   uploaderAddress |-> OrElse(blob.uploader, blob.uploaderAddress)]

\* getDealBlobReferences from the fetched object on
BlobReferencesResult(obj, dealId) ==
  IF obj.data # "moveObject" THEN DealObjectError(obj, dealId)
  ELSE IF obj.walrus_blobs.kind # "array" THEN Returned(<<>>)
  ELSE Returned([i \in 1..Len(obj.walrus_blobs.items) |->
                   BlobReferenceOf(obj.walrus_blobs.items[i])])

GetDealBlobReferencesCall(dealId) ==
  /\ SuiCanStart
  /\ DealQueryCall("getDealBlobReferences", [dealId |-> dealId], TRUE, <<>>)

GetDealBlobReferencesFails(e) ==
  /\ suiPc = "getObject"
  /\ DealQueryDone("getDealBlobReferences", "threw", Thrown(WrapError(BlobDataPrefix, e)))

GetDealBlobReferencesOk ==
  /\ suiPc = "getObject"
  /\ DealQueryDone("getDealBlobReferences", LookupDeal(suiArg.dealId).data,
                BlobReferencesResult(LookupDeal(suiArg.dealId), suiArg.dealId))

\* field === userAddress, the field possibly undefined
IsAddress(f, userAddress) == f.present /\ f.v = userAddress

ParticipantResultOpenOnMissing(obj, userAddress) ==
  IF obj.data # "moveObject" THEN Returned(TRUE)
  ELSE Returned(\/ IsAddress(obj.buyer, userAddress)
                \/ IsAddress(obj.seller, userAddress)
                \/ IsAddress(obj.auditor, userAddress))

\* verifyDealParticipant from the fetched object on
ParticipantResult(obj, userAddress) ==
  IF obj.data # "moveObject" THEN Returned(FALSE)
  ELSE Returned(\/ IsAddress(obj.buyer, userAddress)
                \/ IsAddress(obj.seller, userAddress)
                \/ IsAddress(obj.auditor, userAddress))

UnconfiguredVerdictClosed == FALSE

\* what verifyDealParticipant answers when no package id is configured
UnconfiguredVerdict == TRUE

VerifyDealParticipantCall(dealId, userAddress) ==
  /\ SuiCanStart
  /\ DealQueryCall("verifyDealParticipant", [dealId |-> dealId, userAddress |-> userAddress],
                FALSE, UnconfiguredVerdict)

VerifyDealParticipantFails(e) ==
  /\ suiPc = "getObject"
  /\ DealQueryDone("verifyDealParticipant", "threw", Returned(FALSE))

VerifyDealParticipantOk ==
  /\ suiPc = "getObject"
  /\ DealQueryDone("verifyDealParticipant", LookupDeal(suiArg.dealId).data,
                ParticipantResult(LookupDeal(suiArg.dealId), suiArg.userAddress))

\* ------------------------------------------------------- getDealAuditRecords
EventLimit == 1000
AuditPrefix == "Failed to query audit records: "
Null == [null |-> TRUE]

QueryEventsRequest ==
  [method |-> "queryEvents",
   eventType |-> <<earnoutPackageId, "::earnout::DataAuditRecordCreated">>,
   limit |-> EventLimit]

RECURSIVE AuditRecordIds(_, _)
\* the filter loop over events.data
AuditRecordIds(events, dealId) ==
  IF events = <<>> THEN <<>>
  ELSE (IF Head(events).deal_id = dealId /\ TruthyNum(Head(events).audit_record_id)
        THEN <<Head(events).audit_record_id.v>> ELSE <<>>)
         \o AuditRecordIds(Tail(events), dealId)

RECURSIVE ParseInt(_)
\* parseInt of a string of decimal digits
ParseInt(str) ==
  IF str = <<>> THEN 0
  ELSE 10 * ParseInt(SubSeq(str, 1, Len(str) - 1)) + DigitValue(str[Len(str)])

\* f?.vec?.[0]
FirstOfVec(f) == IF f.present /\ f.v # <<>> THEN Field(f.v[1]) ELSE [present |-> FALSE, v |-> <<>>]

\* the DataAuditRecord pushed for a fetched Move object
AuditRecordOf(recordId, fields) ==
  [id |-> recordId,
   dataId |-> IF Truthy(fields.data_id) THEN fields.data_id.v ELSE "",
   dealId |-> IF Truthy(fields.deal_id) THEN fields.deal_id.v ELSE "",
   periodId |-> IF Truthy(fields.period_id) THEN fields.period_id.v ELSE "",
   uploader |-> IF Truthy(fields.uploader) THEN fields.uploader.v ELSE "",
   uploadTimestamp |-> IF fields.upload_timestamp.present /\ fields.upload_timestamp.v # <<>>
                       THEN ParseInt(fields.upload_timestamp.v) ELSE 0,
   audited |-> fields.audited.present /\ fields.audited.v,
   auditor |-> FirstOfVec(fields.auditor),
   auditTimestamp |-> IF FirstOfVec(fields.audit_timestamp).present
                         /\ FirstOfVec(fields.audit_timestamp).v # <<>>
                      THEN Field(ParseInt(FirstOfVec(fields.audit_timestamp).v))
                      ELSE AbsentNum]

RECURSIVE FindRecord(_, _)
\* auditRecords.find(record => record.dataId === blobId) || null
FindRecord(records, blobId) ==
  IF records = <<>> THEN Null
  ELSE IF Head(records).dataId = blobId THEN Head(records)
  ELSE FindRecord(Tail(records), blobId)

BlobAuditResultRethrows(inner, blobId) ==
  IF inner.kind = "thrown" THEN inner
  ELSE Returned(FindRecord(inner.value, blobId))

\* getBlobAuditRecord around the awaited getDealAuditRecords
BlobAuditResult(inner, blobId) ==
  IF inner.kind = "thrown" THEN Returned(Null)
  ELSE Returned(FindRecord(inner.value, blobId))

\* getDealAuditRecords settles with `inner`; a getBlobAuditRecord that awaited
\* it goes on to its find or its catch
AuditOutcome(method, args, inner) ==
  IF method = "getBlobAuditRecord" THEN BlobAuditResult(inner, args.blobId) ELSE inner

AuditFinish(inner) ==
  /\ suiPc' = "done"
  /\ suiOutcome' = AuditOutcome(suiOp, suiArg, inner)

\* start of getDealAuditRecords, called directly or from getBlobAuditRecord
AuditCall(method, args) ==
  /\ SuiCanStart
  /\ suiOp' = method
  /\ suiArg' = args
  /\ IF earnoutPackageId = ""
     THEN /\ suiCalls' = <<>>
          /\ suiTmp' = [NoAudit EXCEPT !.inner = Returned(<<>>)]
          /\ suiPc' = "done"
          /\ suiOutcome' = AuditOutcome(method, args, Returned(<<>>))
     ELSE /\ suiCalls' = <<QueryEventsRequest>>
          /\ suiTmp' = NoAudit
          /\ suiPc' = "queryEvents"
          /\ suiOutcome' = NoOutcome
  /\ UNCHANGED <<walrusVars, sealVars, pageVars, earnoutPackageId, ledger>>

GetDealAuditRecordsCall(dealId) ==
  /\ SuiCanStart
  /\ AuditCall("getDealAuditRecords", [dealId |-> dealId])

GetBlobAuditRecordCall(dealId, blobId) ==
  /\ SuiCanStart
  /\ AuditCall("getBlobAuditRecord", [dealId |-> dealId, blobId |-> blobId])

\* queryEvents rejects: the outer catch wraps and throws
QueryEventsFails(e) ==
  /\ suiPc = "queryEvents"
  /\ suiTmp' = [suiTmp EXCEPT !.scan = "threw", !.inner = Thrown(WrapError(AuditPrefix, e))]
  /\ AuditFinish(Thrown(WrapError(AuditPrefix, e)))
  /\ UNCHANGED <<walrusVars, sealVars, pageVars, earnoutPackageId, ledger, suiOp, suiArg, suiCalls>>

\* queryEvents resolves: the ids are filtered; none ends the query, else the
\* first record object is requested
QueryEventsOk ==
  /\ suiPc = "queryEvents"
  /\ LET ids == AuditRecordIds(ledger.events, suiArg.dealId)
     IN IF ids = <<>>
        THEN /\ suiTmp' = [suiTmp EXCEPT !.scan = "ok", !.inner = Returned(<<>>)]
             /\ AuditFinish(Returned(<<>>))
             /\ UNCHANGED suiCalls
        ELSE /\ suiTmp' = [suiTmp EXCEPT !.scan = "ok", !.ids = ids, !.idx = 1]
             /\ suiCalls' = Append(suiCalls, GetObjectRequest(ids[1], FALSE))
             /\ suiPc' = "record"
             /\ UNCHANGED suiOutcome
  /\ UNCHANGED <<walrusVars, sealVars, pageVars, earnoutPackageId, ledger, suiOp, suiArg>>

\* the loop goes on after record idx: the next object is requested, or the
\* records are returned
AuditContinue(records, fetched) ==
  /\ IF suiTmp.idx = Len(suiTmp.ids)
     THEN /\ suiTmp' = [suiTmp EXCEPT !.records = records, !.fetched = fetched,
                                      !.inner = Returned(records)]
          /\ AuditFinish(Returned(records))
          /\ UNCHANGED suiCalls
     ELSE /\ suiTmp' = [suiTmp EXCEPT !.records = records, !.fetched = fetched,
                                      !.idx = suiTmp.idx + 1]
          /\ suiCalls' = Append(suiCalls, GetObjectRequest(suiTmp.ids[suiTmp.idx + 1], FALSE))
          /\ suiPc' = "record"
          /\ UNCHANGED suiOutcome
  /\ UNCHANGED <<walrusVars, sealVars, pageVars, earnoutPackageId, ledger, suiOp, suiArg>>

RecordFetchFailsAborts(e) ==
  /\ suiPc = "record"
  /\ suiTmp' = [suiTmp EXCEPT !.fetched = Append(suiTmp.fetched, "threw"),
                              !.inner = Thrown(WrapError(AuditPrefix, e))]
  /\ AuditFinish(Thrown(WrapError(AuditPrefix, e)))
  /\ UNCHANGED <<walrusVars, sealVars, pageVars, earnoutPackageId, ledger, suiOp, suiArg, suiCalls>>

\* getObject of a record rejects: logged, the record is skipped
RecordFetchFails(e) ==
  /\ suiPc = "record"
  /\ AuditContinue(suiTmp.records, Append(suiTmp.fetched, "threw"))

\* getObject of a record resolves: a Move object is pushed, anything else skipped
RecordFetchOk ==
  /\ suiPc = "record"
  /\ LET recordId == suiTmp.ids[suiTmp.idx]
         obj == RecordObject(recordId, ledger.bad)
     IN AuditContinue(IF obj.data = "moveObject"
                      THEN Append(suiTmp.records, AuditRecordOf(recordId, obj))
                      ELSE suiTmp.records,
                      Append(suiTmp.fetched, obj.data))

Users == {"0xbuyer", "0xeve", "not an address"}
QueriedBlobs == {"b1", "b2", "b9"}

SuiIdle ==
  /\ suiPc = "idle"
  /\ suiOp = "none"
  /\ suiArg = <<>>
  /\ suiCalls = <<>>
  /\ suiTmp = NoAudit
  /\ suiOutcome = NoOutcome

SuiUnused == earnoutPackageId = "" /\ ledger = LedgerOf(PlainDeal, <<>>, 0) /\ SuiIdle

SuiInit ==
  /\ earnoutPackageId \in PackageIds
  /\ ledger \in Ledgers
  /\ SuiIdle

SuiNext ==
  \/ \E d \in DOMAIN DealIds : GetDealBlobIdsCall(DealIds[d])
  \/ \E e \in ClientFailures : GetDealBlobIdsFails(e)
  \/ GetDealBlobIdsOk
  \/ \E d \in DOMAIN DealIds : GetDealBlobReferencesCall(DealIds[d])
  \/ \E e \in ClientFailures : GetDealBlobReferencesFails(e)
  \/ GetDealBlobReferencesOk
  \/ \E d \in DOMAIN DealIds, u \in Users : VerifyDealParticipantCall(DealIds[d], u)
  \/ \E e \in ClientFailures : VerifyDealParticipantFails(e)
  \/ VerifyDealParticipantOk
  \/ \E d \in DOMAIN DealIds : GetDealAuditRecordsCall(DealIds[d])
  \/ \E d \in DOMAIN DealIds, b \in QueriedBlobs : GetBlobAuditRecordCall(DealIds[d], b)
  \/ \E e \in ClientFailures : QueryEventsFails(e)
  \/ QueryEventsOk
  \/ \E e \in ClientFailures : RecordFetchFails(e)
  \/ RecordFetchOk

\* ============================================================ CreateDealPage
NoFile == [type |-> "", size |-> 0]
PdfFile(size) == [type |-> "application/pdf", size |-> size]
MaxPdfBytes == 10 * 1024 * 1024

\* files a user can pick: a small PDF, one of exactly the limit, one over it, an image
Files == {PdfFile(1), PdfFile(MaxPdfBytes), PdfFile(MaxPdfBytes + 1), [type |-> "image/png", size |-> 1]}

Accounts == {"", "0xbuyer"}

Asset(id) == [assetID |-> id, originalCost |-> 100, estimatedUsefulLife_months |-> 120]

FormData(dealName, assets) ==
  [dealName |-> dealName, buyerName |-> "Buyer Inc", sellerName |-> "Seller Ltd",
   acquireeAddress |-> "0xseller", auditorAddress |-> "0xauditor",
   kpiTargetAmount |-> 900, assets |-> assets]

FormDatas == {FormData("Acme", <<Asset("a1")>>), FormData("Beta", <<Asset("a1"), Asset("a2")>>)}

Toast(level, message, description) ==
  [level |-> level, message |-> message, description |-> description]

\* what uploadFile resolves with: no blobId, an empty one, a blob id
UploadResponses ==
  {[blobId |-> Absent], [blobId |-> Field("")], [blobId |-> Field("blobA")]}

NoResponse == [blobId |-> Absent]

\* transaction digests: one longer than the preview, one shorter
TxDigests == {<<"9", "f", "X", "k", "2", "Q", "m", "7", "a", "B", "c", "D">>, <<"9", "f", "X">>}
DigestPreviewLen == 10

NoBlobIdError == ErrorOf(<<"Failed to get blobId from Walrus upload.">>)

\* the catch block of onSubmit
CatchToast(e) ==
  Toast("error", "An error occurred",
        IF e.isError THEN e.message ELSE <<"Please try again.">>)

UploadFileRequest(file) ==
  [method |-> "uploadFile", file |-> file, dealId |-> "temp-deal-id",
   periodId |-> "agreement", dataType |-> "legal"]

\* asset => ({asset_id, original_cost, estimated_useful_life_months})
AssetForBackend(asset) ==
  [asset_id |-> asset.assetID, original_cost |-> asset.originalCost,
   estimated_useful_life_months |-> asset.estimatedUsefulLife_months]

\* dealDataForBackend
DealDataForBackend(data, blobId) ==
  [name |-> data.dealName, buyerName |-> data.buyerName, sellerName |-> data.sellerName,
   sellerAddress |-> data.acquireeAddress, auditorAddress |-> data.auditorAddress,
   kpiTarget |-> data.kpiTargetAmount, agreementBlobId |-> blobId,
   assets |-> [i \in 1..Len(data.assets) |-> AssetForBackend(data.assets[i])]]

CreateDealRequest(data, blobId) ==
  [method |-> "createDeal", dealData |-> DealDataForBackend(data, blobId)]

PageCanStart == pagePc \in {"idle", "done"}

\* handleFileUpload: a PDF of at most 10MB becomes the uploaded file
HandleFileUpload(file) ==
  /\ PageCanStart
  /\ pagePc' = "idle"
  /\ pageCalls' = <<>>
  /\ IF file.type # "application/pdf"
     THEN /\ pageToasts' = <<Toast("error", "Please upload a PDF file", <<>>)>>
          /\ UNCHANGED uploadedFile
     ELSE IF file.size > MaxPdfBytes
     THEN /\ pageToasts' = <<Toast("error", "File size must be less than 10MB", <<>>)>>
          /\ UNCHANGED uploadedFile
     ELSE /\ pageToasts' = <<Toast("success", "MA Agreement uploaded successfully", <<>>)>>
          /\ uploadedFile' = file
  /\ pageTmp' = NoResponse
  /\ UNCHANGED <<walrusVars, sealVars, suiVars, currentAccount, pageArg>>

\* removeFile
RemoveFile ==
  /\ PageCanStart
  /\ pagePc' = "idle"
  /\ pageCalls' = <<>>
  /\ uploadedFile' = NoFile
  /\ pageToasts' = <<Toast("info", "MA Agreement removed", <<>>)>>
  /\ pageTmp' = NoResponse
  /\ UNCHANGED <<walrusVars, sealVars, suiVars, currentAccount, pageArg>>

SubmitChecksNoWalletCheck ==
  IF uploadedFile = NoFile THEN Rejected(<<"Please upload the M&A Agreement PDF">>)
  ELSE Passed

\* the two early returns of onSubmit, in source order
SubmitChecks ==
  IF uploadedFile = NoFile THEN Rejected(<<"Please upload the M&A Agreement PDF">>)
  ELSE IF currentAccount = "" THEN Rejected(<<"Please connect your wallet first">>)
  ELSE Passed

\* onSubmit(): the early returns, then uploadFile is started
SubmitCall(data) ==
  /\ PageCanStart
  /\ pageArg' = data
  /\ pageTmp' = NoResponse
  /\ IF ~SubmitChecks.ok
     THEN /\ pagePc' = "done"
          /\ pageCalls' = <<>>
          /\ pageToasts' = <<Toast("error", SubmitChecks.error.message[1], <<>>)>>
     ELSE /\ pagePc' = "uploadFile"
          /\ pageCalls' = <<UploadFileRequest(uploadedFile)>>
          /\ pageToasts' = <<Toast("info", "Uploading M&A Agreement to Walrus...", <<>>)>>
  /\ UNCHANGED <<walrusVars, sealVars, suiVars, uploadedFile, currentAccount>>

\* a pending hook call of onSubmit rejects: the catch block shows the error
SubmitStepFails(e) ==
  /\ pagePc \in {"uploadFile", "createDeal"}
  /\ pagePc' = "done"
  /\ pageToasts' = Append(pageToasts, CatchToast(e))
  /\ UNCHANGED <<walrusVars, sealVars, suiVars, uploadedFile, currentAccount, pageArg, pageCalls, pageTmp>>

\* await uploadFile(...) resolves: without a blobId the error goes to the catch
\* block, else createDeal is started with the blob id
UploadFileOk(response) ==
  /\ pagePc = "uploadFile"
  /\ pageTmp' = response
  /\ IF ~Truthy(response.blobId)
     THEN /\ pagePc' = "done"
          /\ pageToasts' = Append(pageToasts, CatchToast(NoBlobIdError))
          /\ UNCHANGED pageCalls
     ELSE /\ pagePc' = "createDeal"
          /\ pageToasts' = Append(pageToasts,
                                  Toast("success", "M&A Agreement uploaded successfully.", <<>>))
          /\ pageCalls' = Append(pageCalls, CreateDealRequest(pageArg, response.blobId.v))
  /\ UNCHANGED <<walrusVars, sealVars, suiVars, uploadedFile, currentAccount, pageArg>>

\* await createDeal(...) resolves after calling onSuccess: toast and navigation
CreateDealSucceeds(txDigest) ==
  /\ pagePc = "createDeal"
  /\ pagePc' = "done"
  /\ pageToasts' = Append(pageToasts,
       Toast("success", <<"Deal \"", pageArg.dealName, "\" created successfully!">>,
             <<"Transaction: ", SubSeq(txDigest, 1, Min(DigestPreviewLen, Len(txDigest))), "...">>))
  /\ pageCalls' = Append(pageCalls, [method |-> "router.push", path |-> "/deals"])
  /\ UNCHANGED <<walrusVars, sealVars, suiVars, uploadedFile, currentAccount, pageArg, pageTmp>>

\* await createDeal(...) resolves after calling onError
CreateDealReportsError(e) ==
  /\ pagePc = "createDeal"
  /\ e.isError
  /\ pagePc' = "done"
  /\ pageToasts' = Append(pageToasts, Toast("error", "Failed to create deal", e.message))
  /\ UNCHANGED <<walrusVars, sealVars, suiVars, uploadedFile, currentAccount, pageArg, pageCalls, pageTmp>>

PageIdle ==
  /\ pagePc = "idle"
  /\ pageArg = <<>>
  /\ pageCalls = <<>>
  /\ pageTmp = NoResponse
  /\ pageToasts = <<>>

PageUnused == uploadedFile = NoFile /\ currentAccount = "" /\ PageIdle

PageInit ==
  /\ uploadedFile = NoFile
  /\ currentAccount \in Accounts
  /\ PageIdle

PageNext ==
  \/ \E f \in Files : HandleFileUpload(f)
  \/ RemoveFile
  \/ \E data \in FormDatas : SubmitCall(data)
  \/ \E e \in ClientFailures : SubmitStepFails(e)
  \/ \E r \in UploadResponses : UploadFileOk(r)
  \/ \E txDigest \in TxDigests : CreateDealSucceeds(txDigest)
  \/ \E e \in ClientFailures : CreateDealReportsError(e)

SealUnused ==
  /\ nodeEnv = "production"
  /\ enableServerEncryption = TRUE
  /\ policyObjectId = <<>>
  /\ SealConstructed("unset", UnsetEnv)
  /\ SealIdle

\* ----------------------------------------------------------- specifications
\* WalrusService alone, the Seal service constructed and idle
Init ==
  /\ WalrusInit
  /\ SealUnused
  /\ SuiUnused
  /\ PageUnused

Next == WalrusNext

Spec == Init /\ [][Next]_vars

\* SealService alone, the Walrus service constructed and idle
WalrusIdle ==
  /\ maxFileSize = 1
  /\ storageEpochs = 1
  /\ backendKeypair = "null"
  /\ epoch = 1
  /\ blobs = <<>>
  /\ pc = "idle"
  /\ op = "none"
  /\ arg = <<>>
  /\ calls = <<>>
  /\ cause = NoCause
  /\ failedAt = 0
  /\ tmp = NoTmp
  /\ outcome = NoOutcome
  /\ uploads = <<>>
  /\ lastUpload = NoUpload

InitSeal == WalrusIdle /\ SealInit /\ SuiUnused /\ PageUnused

NextSeal == SealNext

SpecSeal == InitSeal /\ [][NextSeal]_vars

\* SealService.decrypt alone
InitDecrypt == WalrusIdle /\ DecryptInit /\ SuiUnused /\ PageUnused

NextDecrypt == DecryptNext

SpecDecrypt == InitDecrypt /\ [][NextDecrypt]_vars

\* SuiService alone
InitSui == WalrusIdle /\ SealUnused /\ SuiInit /\ PageUnused

NextSui == SuiNext

SpecSui == InitSui /\ [][NextSui]_vars

\* SealService: encrypt, then decrypt of the ciphertext encrypt returned
RoundTripInit ==
  /\ nodeEnv = "production"
  /\ enableServerEncryption = TRUE
  /\ policyObjectId \in ConfiguredPolicies
  /\ SealConstructed("valid", UnsetEnv)
  /\ SealIdle

\* decrypt() of the ciphertext the last encrypt() returned
DecryptEncrypted(dealId) ==
  /\ sealOp = "encrypt"
  /\ sealOutcome.kind = "returned"
  /\ DecryptCall(sealOutcome.value.ciphertext, dealId, "0xbuyer")

RoundTripNext ==
  \/ SealNext
  \/ \E d \in DOMAIN DealIds : DecryptEncrypted(DealIds[d])
  \/ DecryptParse
  \/ \E e \in ClientFailures : DecryptStepFails(e)
  \/ SessionOk
  \/ FetchKeysOk
  \/ DecryptOk

InitRoundTrip == WalrusIdle /\ RoundTripInit /\ SuiUnused /\ PageUnused

NextRoundTrip == RoundTripNext

SpecRoundTrip == InitRoundTrip /\ [][NextRoundTrip]_vars

\* CreateDealPage alone
InitPage == WalrusIdle /\ SealUnused /\ SuiUnused /\ PageInit

NextPage == PageNext

SpecPage == InitPage /\ [][NextPage]_vars

\* ================================================== claims on WalrusService
UploadDone == op = "upload" /\ pc = "done"

ThrewWith(msg) ==
  /\ outcome.kind = "thrown"
  /\ outcome.error.isError
  /\ Contains(outcome.error.message, msg)

NoNetworkCall == calls = <<>>

\* C1 (as stated): every upload of a payload whose length is at or above the
\* configured maximum is rejected with the size error and issues no network call.
C1_AtOrAboveRejected ==
  (op = "upload" /\ Len(arg) >= maxFileSize) =>
     /\ NoNetworkCall
     /\ pc = "done"
     /\ ThrewWith(FileSizeMessage(Len(arg), maxFileSize))

\* C1 (amended): every upload of a payload whose length is strictly above the
\* configured maximum is rejected with the size error and issues no network call.
C1_AboveMaxRejected ==
  (op = "upload" /\ Len(arg) > maxFileSize) =>
     /\ NoNetworkCall
     /\ pc = "done"
     /\ ThrewWith(FileSizeMessage(Len(arg), maxFileSize))

C1_Witness ==
  /\ UploadDone
  /\ Len(arg) = maxFileSize + 1
  /\ outcome.kind = "thrown"

\* C2: an upload whose payload is strictly larger than the maximum, or that runs
\* without a loaded keypair, throws without calling writeBlobToUploadRelay or
\* systemState; when both hold the size error is the one reported.
C2_FailFast ==
  (op = "upload" /\ (Len(arg) > maxFileSize \/ backendKeypair = "null")) =>
     /\ NoNetworkCall
     /\ pc = "done"
     /\ outcome.kind = "thrown"
     /\ IF Len(arg) > maxFileSize
        THEN ThrewWith(FileSizeMessage(Len(arg), maxFileSize))
             /\ ~Contains(outcome.error.message, KeypairMessage)
        ELSE ThrewWith(KeypairMessage)

C2_Witness ==
  /\ UploadDone
  /\ Len(arg) > maxFileSize
  /\ backendKeypair = "null"
  /\ ThrewWith(FileSizeMessage(Len(arg), maxFileSize))

\* C3: when upload returns, its endEpoch is the epoch the network reports to the
\* systemState query of that very call plus the configured storage epochs, and
\* two returned uploads whose queries saw different epochs differ in endEpoch.
C3_EndEpochLive ==
  [][ (op = "upload" /\ pc = "systemState" /\ pc' = "done" /\ outcome'.kind = "returned") =>
        /\ calls' = Append(calls, "systemState")
        /\ outcome'.value.endEpoch = epoch + storageEpochs
        /\ \A i, j \in DOMAIN uploads' :
             uploads'[i].currentEpoch # uploads'[j].currentEpoch
               => uploads'[i].endEpoch # uploads'[j].endEpoch ]_vars

C3_Witness ==
  /\ UploadDone
  /\ outcome.kind = "returned"
  /\ Len(uploads) = 2
  /\ uploads[1].currentEpoch < uploads[2].currentEpoch
  /\ uploads[1].endEpoch < uploads[2].endEpoch

UploadResultFields == {"blobId", "commitment", "size", "storageEpochs", "endEpoch"}

\* C4: a finished upload either threw or returned a result with every field set,
\* whose blobId is the one the relay returned for the payload, whose size is the
\* payload length and whose storageEpochs is the configured value; it returns
\* only after both the relay write and the epoch query succeeded.
C4_AllOrNothing ==
  UploadDone =>
     \/ outcome.kind = "thrown"
     \/ /\ outcome.kind = "returned"
        /\ failedAt = 0
        /\ calls = <<"writeBlobToUploadRelay", "systemState">>
        /\ DOMAIN outcome.value = UploadResultFields
        /\ outcome.value.blobId = tmp.result.blobId
        /\ outcome.value.blobId = BlobIdOf(arg)
        /\ outcome.value.blobId \in DOMAIN blobs
        /\ outcome.value.size = Len(arg)
        /\ outcome.value.storageEpochs = storageEpochs
        /\ Len(outcome.value.commitment) > 1

C4_Witness ==
  /\ UploadDone
  /\ outcome.kind = "returned"
  /\ Len(arg) = maxFileSize
  /\ outcome.value.size = 2

\* C5: with a keypair loaded, an upload of a payload under the maximum size fails
\* only when a client call fails, and a download of the blob id it returned
\* fails only when readBlob fails and otherwise returns exactly the payload.
C5_RoundTrip ==
  /\ (UploadDone /\ Len(arg) < maxFileSize /\ backendKeypair = "loaded" /\ failedAt = 0)
        => outcome.kind = "returned"
  /\ (op = "download" /\ pc = "done" /\ lastUpload # NoUpload /\ arg = lastUpload.blobId) =>
        IF failedAt = 0
        THEN outcome.kind = "returned" /\ outcome.value = lastUpload.data
        ELSE outcome.kind = "thrown"

C5_Witness ==
  /\ op = "download"
  /\ pc = "done"
  /\ Len(lastUpload.data) < maxFileSize
  /\ arg = lastUpload.blobId
  /\ outcome = Returned(<<255>>)

WalrusMethods == {"upload", "download", "getBlobInfo", "calculateStorageCost"}

\* C6: in upload, download, getBlobInfo and calculateStorageCost the first client
\* call that fails ends the call: it is the last client call issued, the call
\* throws one Error whose message carries the message of the client's Error, and
\* a download of an id the network does not store always ends this way.
C6_WrapNoRetry ==
  /\ failedAt # 0 =>
        /\ op \in WalrusMethods
        /\ pc = "done"
        /\ Len(calls) = failedAt
        /\ outcome.kind = "thrown"
        /\ outcome.error.isError
        /\ cause.isError => Contains(outcome.error.message, cause.message)
  /\ (op = "download" /\ pc = "done" /\ arg \notin DOMAIN blobs) =>
        failedAt = 1 /\ outcome.kind = "thrown"

C6_Witness ==
  /\ op = "getBlobInfo"
  /\ pc = "done"
  /\ failedAt = 2
  /\ cause.isError
  /\ calls = <<"getVerifiedBlobStatus", "getBlobMetadata">>

HasDigestTag(metadata) ==
  /\ metadata.hashes.present
  /\ Len(metadata.hashes.list) > 0
  /\ metadata.hashes.list[1].primary_hash.present
  /\ metadata.hashes.list[1].primary_hash.kind = "Digest"

\* C7: when getBlobInfo got metadata with a readable size and no client call
\* failed, it returns; the commitment is "walrus:" followed by the hex of the
\* first entry's primary digest exactly when that primary hash is tagged Digest,
\* and is "walrus:unknown" for every other hash shape.
C7_CommitmentByTag ==
  (op = "getBlobInfo" /\ pc = "done" /\ failedAt = 0 /\ tmp.metadata.hasV1) =>
     /\ outcome.kind = "returned"
     /\ LET m == tmp.metadata
            c == outcome.value.commitment
        IN /\ HasDigestTag(m) <=> (c[1] = "walrus:" /\ c # UnknownCommitment)
           /\ HasDigestTag(m) =>
                /\ Len(c) = 1 + 2 * Len(m.hashes.list[1].primary_hash.Digest)
                /\ m.hashes.list[1].primary_hash.Digest = <<0, 10>>
                     => c = <<"walrus:", "0", "0", "0", "a">>
                /\ m.hashes.list[1].primary_hash.Digest = <<255, 16, 9>>
                     => c = <<"walrus:", "f", "f", "1", "0", "0", "9">>
           /\ ~HasDigestTag(m) => c = <<"walrus:unknown">>

C7_Witness ==
  /\ op = "getBlobInfo"
  /\ pc = "done"
  /\ outcome.kind = "returned"
  /\ tmp.metadata.hashes.present
  /\ Len(tmp.metadata.hashes.list) = 1
  /\ tmp.metadata.hashes.list[1].primary_hash.kind = "Unknown"
  /\ outcome.value.commitment = <<"walrus:unknown">>

\* ==================================================== claims on SealService
EncryptDone == sealOp = "encrypt" /\ sealPc = "done"

\* C8: encrypt throws before sending anything to the Seal client whenever
\* server-side encryption is disabled or no policy object id is configured, and
\* reports the disabled flag when both hold.
C8_EncryptFailFast ==
  (sealOp = "encrypt" /\ (~enableServerEncryption \/ policyObjectId = <<>>)) =>
     /\ sealCalls = <<>>
     /\ sealPc = "done"
     /\ sealOutcome.kind = "thrown"
     /\ sealOutcome.error.isError
     /\ sealOutcome.error.message =
          IF ~enableServerEncryption THEN DisabledMessage ELSE NoPolicyMessage

C8_Witness ==
  /\ EncryptDone
  /\ ~enableServerEncryption
  /\ policyObjectId = <<>>
  /\ sealOutcome = Thrown(ErrorOf(<<"Server-side encryption is disabled">>))

LowerHexChars ==
  {"0", "1", "2", "3", "4", "5", "6", "7", "8", "9", "a", "b", "c", "d", "e", "f"}

HexPairOf(b) ==
  <<CHOOSE c \in LowerHexChars : HexDigits[(b \div 16) + 1] = c,
    CHOOSE c \in LowerHexChars : HexDigits[(b % 16) + 1] = c>>

\* C9: the commitment of every returned encrypt result is "sha256:" followed by
\* exactly 64 lowercase hex characters, two per byte of the SHA-256 digest of the
\* returned ciphertext; results with equal ciphertexts have equal commitments,
\* and the commitment never starts with "walrus:".
C9_Sha256Commitment ==
  (EncryptDone /\ sealOutcome.kind = "returned") =>
     LET c == sealOutcome.value.commitment
         digest == Sha256(sealOutcome.value.ciphertext)
     IN /\ Len(c) = 65
        /\ c[1] = "sha256:"
        /\ c[1] # "walrus:"
        /\ \A i \in 2..Len(c) : c[i] \in LowerHexChars
        /\ \A k \in 1..32 : <<c[2 * k], c[2 * k + 1]>> = HexPairOf(digest[k])
        /\ sealPrev.ciphertext = sealOutcome.value.ciphertext
             => sealPrev.commitment = c

C9_Witness ==
  /\ EncryptDone
  /\ sealOutcome.kind = "returned"
  /\ sealPrev.ciphertext = sealOutcome.value.ciphertext
  /\ \E k \in 1..32 : Sha256(sealOutcome.value.ciphertext)[k] < 16

\* C10: every encryption request sent to the Seal client has threshold 2, the
\* part of the request's policy identifier before its first "::" as package id
\* and the request's dealId as identity; a returned result carries that policy
\* identifier.
C10_EncryptBinding ==
  (sealOp = "encrypt") =>
     LET pol == sealArg.encryptionConfig.policyObjectId
     IN /\ \A n \in DOMAIN sealCalls :
             LET r == sealCalls[n]
                 pkg == r.packageId
             IN /\ r.method = "encrypt"
                /\ r.threshold = 2
                /\ r.id = sealArg.encryptionConfig.dealId
                /\ Len(pkg) <= Len(pol)
                /\ pkg = SubSeq(pol, 1, Len(pkg))
                /\ \A k \in 1..Len(pkg) :
                     ~(k < Len(pol) /\ pol[k] = ":" /\ pol[k + 1] = ":")
                /\ \/ pkg = pol
                   \/ /\ Len(pol) >= Len(pkg) + 2
                      /\ pol[Len(pkg) + 1] = ":"
                      /\ pol[Len(pkg) + 2] = ":"
        /\ sealOutcome.kind = "returned" =>
             /\ Len(sealCalls) = 1
             /\ sealOutcome.value.policyObjectId = pol

C10_Witness ==
  /\ EncryptDone
  /\ sealOutcome.kind = "returned"
  /\ sealArg.encryptionConfig.policyObjectId = <<"0", "x", "2", ":", ":", "m", ":", ":", "p">>
  /\ sealCalls[1].packageId = <<"0", "x", "2">>
  /\ sealCalls[1].id = "0xdea2"

DecryptDone == sealOp = "decrypt" /\ sealPc = "done"

\* C11: decrypt throws before parsing the ciphertext, opening a session or
\* contacting a key server whenever server-side encryption is disabled or the
\* constructor loaded no backend keypair (no key configured, or a malformed key
\* whose decoding error was swallowed); the disabled flag is reported first.
C11_DecryptFailFast ==
  (sealOp = "decrypt" /\ (~enableServerEncryption \/ sealPrivateKey # "valid")) =>
     /\ sealCalls = <<>>
     /\ sealPc = "done"
     /\ sealOutcome.kind = "thrown"
     /\ sealOutcome.error.isError
     /\ sealOutcome.error.message =
          (IF ~enableServerEncryption
           THEN <<"Server-side decryption is disabled">>
           ELSE <<"Backend keypair is not configured for decryption">>)

C11_Witness ==
  /\ DecryptDone
  /\ enableServerEncryption
  /\ sealPrivateKey = "malformed"
  /\ Parses(sealArg.ciphertext)
  /\ sealCalls = <<>>
  /\ sealOutcome = Thrown(ErrorOf(<<"Backend keypair is not configured for decryption">>))

\* C12 (as stated): every key-fetch request and every decrypt request that
\* decrypt sends carries a non-empty approval transaction.
C12_ApprovalTxAttached ==
  \A n \in DOMAIN sealCalls :
    sealCalls[n].method \in {"fetchKeys", "decrypt"} => sealCalls[n].txBytes # <<>>

\* C13 (as stated): decrypt returns plaintext only to a participant of the deal,
\* and, where decryption is enabled and a keypair is loaded, two finished calls
\* that differ only in the user address, one a participant and the other not,
\* have different outcomes.
C13_AccessGatesDecrypt ==
  /\ (DecryptDone /\ sealOutcome.kind = "returned") =>
        sealArg.userAddress \in DealParticipants(sealArg.dealId)
  /\ (/\ DecryptDone
      /\ enableServerEncryption
      /\ sealKeypair = "loaded"
      /\ sealPrevDecrypt # NoDecrypt
      /\ sealPrevDecrypt.arg.ciphertext = sealArg.ciphertext
      /\ sealPrevDecrypt.arg.dealId = sealArg.dealId
      /\ (sealPrevDecrypt.arg.userAddress \in DealParticipants(sealArg.dealId))
           # (sealArg.userAddress \in DealParticipants(sealArg.dealId)))
       => sealPrevDecrypt.outcome # sealOutcome

RECURSIVE NonBlankTrimmed(_)
\* the items of a list that are identifiers: not blank, without surrounding blanks
NonBlankTrimmed(items) ==
  IF items = <<>> THEN <<>>
  ELSE (IF Trim(Head(items)) = <<>> THEN <<>> ELSE <<Trim(Head(items))>>)
         \o NonBlankTrimmed(Tail(items))

ConfiguredIdentifiers(env) ==
  IF env.set THEN NonBlankTrimmed(SplitComma(env.text)) ELSE <<>>

\* C14 (as stated): the key server set handed to the client has one entry per
\* configured identifier, in order, trimmed, with weight 1; with no identifier
\* configured it is empty, and encrypt still reaches the threshold request.
C14_KeyServerSet ==
  /\ Len(serverConfigs) = Len(ConfiguredIdentifiers(keyServerEnv))
  /\ \A i \in DOMAIN serverConfigs :
       /\ i <= Len(ConfiguredIdentifiers(keyServerEnv))
       /\ serverConfigs[i] = [objectId |-> ConfiguredIdentifiers(keyServerEnv)[i], weight |-> 1]
  /\ (/\ ConfiguredIdentifiers(keyServerEnv) = <<>>
      /\ sealOp = "encrypt"
      /\ enableServerEncryption
      /\ policyObjectId # <<>>) => sealCalls # <<>>

SuiDone(method) == suiOp = method /\ suiPc = "done"

ReturnedEmpty == suiOutcome.kind = "returned" /\ suiOutcome.value = <<>>

\* the deal object came back as a Move object and its walrus_blobs is no list
FetchedWithoutBlobList ==
  /\ earnoutPackageId # ""
  /\ suiTmp.fetched = <<"moveObject">>
  /\ LookupDeal(suiArg.dealId).walrus_blobs.kind # "array"

\* the deal object came back as a Move object whose walrus_blobs is the empty list
FetchedEmptyBlobList ==
  /\ earnoutPackageId # ""
  /\ suiTmp.fetched = <<"moveObject">>
  /\ LookupDeal(suiArg.dealId).walrus_blobs = BlobListOf(<<>>)

SuiThrewWith(prefix, msg) ==
  /\ suiOutcome.kind = "thrown"
  /\ suiOutcome.error.isError
  /\ suiOutcome.error.message = <<prefix>> \o msg

\* C15 (as stated): a finished getDealBlobIds has returned the empty sequence
\* exactly when the package is not configured or the fetched deal object has
\* no blob list.
C15_EmptyInExactlyTwoCases ==
  SuiDone("getDealBlobIds") =>
    (ReturnedEmpty <=> (earnoutPackageId = "" \/ FetchedWithoutBlobList))

\* C15 (amended): a finished getDealBlobIds has returned the empty sequence
\* exactly when the package is not configured (and then no ledger query was
\* issued), or the fetched deal object has no blob list, or its blob list is
\* empty; a deal that is not found or is no Move object ends in an error.
C15_EmptyCases ==
  SuiDone("getDealBlobIds") =>
    /\ ReturnedEmpty <=>
         (earnoutPackageId = "" \/ FetchedWithoutBlobList \/ FetchedEmptyBlobList)
    /\ earnoutPackageId = "" => suiCalls = <<>>
    /\ (earnoutPackageId # "" /\ suiTmp.fetched = <<"none">>) =>
         SuiThrewWith("Failed to query on-chain blob data: ",
                      <<"Deal not found: ", suiArg.dealId>>)
    /\ (earnoutPackageId # "" /\ suiTmp.fetched = <<"package">>) =>
         SuiThrewWith("Failed to query on-chain blob data: ",
                      <<"Invalid Deal object structure">>)

C15_Witness ==
  /\ SuiDone("getDealBlobIds")
  /\ FetchedEmptyBlobList
  /\ suiCalls # <<>>
  /\ ReturnedEmpty

\* the blob records a finished getDealBlobReferences mapped
MappedBlobs == LookupDeal(suiArg.dealId).walrus_blobs.items

ReturnedReferences ==
  /\ SuiDone("getDealBlobReferences")
  /\ suiOutcome.kind = "returned"
  /\ suiTmp.fetched = <<"moveObject">>
  /\ LookupDeal(suiArg.dealId).walrus_blobs.kind = "array"

\* the (snake_case, camelCase, output) names of the fields with two spellings
SpelledFields ==
  { <<"blob_id", "blobId", "blobId">>,
    <<"period_id", "periodId", "periodId">>,
    <<"data_type", "dataType", "dataType">>,
    <<"uploader", "uploaderAddress", "uploaderAddress">> }

\* a is written in snake_case only, b in camelCase only, with the same values
SameValues(a, b) ==
  /\ a.size = b.size
  /\ \A t \in SpelledFields :
       /\ a[t[1]].present /\ ~a[t[2]].present
       /\ b[t[2]].present /\ ~b[t[1]].present
       /\ a[t[1]].v = b[t[2]].v

C16_Shape ==
  /\ Len(suiOutcome.value) = Len(MappedBlobs)
  /\ \A i \in DOMAIN MappedBlobs :
       /\ suiOutcome.value[i].size = (IF MappedBlobs[i].size.present THEN MappedBlobs[i].size.v ELSE 0)
       /\ \A t \in SpelledFields :
            (MappedBlobs[i][t[1]].present /\ ~MappedBlobs[i][t[2]].present) =>
               suiOutcome.value[i][t[3]] = MappedBlobs[i][t[1]].v
  /\ \A i, j \in DOMAIN MappedBlobs :
       SameValues(MappedBlobs[i], MappedBlobs[j]) =>
          /\ suiOutcome.value[i].size = suiOutcome.value[j].size
          /\ \A t \in SpelledFields : suiOutcome.value[i][t[3]] = suiOutcome.value[j][t[3]]

\* C16 (as stated): one output per record in order, equal outputs for equal
\* values under either spelling, and the snake_case value whenever a record
\* carries both spellings of a field.
C16_SnakeCaseWins ==
  ReturnedReferences =>
    /\ C16_Shape
    /\ \A i \in DOMAIN MappedBlobs : \A t \in SpelledFields :
         (MappedBlobs[i][t[1]].present /\ MappedBlobs[i][t[2]].present) =>
            suiOutcome.value[i][t[3]] = MappedBlobs[i][t[1]].v

\* C16 (amended): one output per record in order, equal outputs for equal values
\* under either spelling, and, when a record carries both spellings of a field,
\* the snake_case value if it is not empty, else the camelCase value.
C16_NonEmptySnakeCaseWins ==
  ReturnedReferences =>
    /\ C16_Shape
    /\ \A i \in DOMAIN MappedBlobs : \A t \in SpelledFields :
         (MappedBlobs[i][t[1]].present /\ MappedBlobs[i][t[2]].present) =>
            suiOutcome.value[i][t[3]] =
              (IF MappedBlobs[i][t[1]].v # "" THEN MappedBlobs[i][t[1]].v
               ELSE MappedBlobs[i][t[2]].v)

C16_Witness ==
  /\ ReturnedReferences
  /\ MappedBlobs = <<BothBlob, EmptySnakeBlob>>
  /\ suiOutcome.value[1].blobId = "b1"
  /\ suiOutcome.value[2].blobId = "b2"
  /\ suiOutcome.value[2].periodId = "p1"

\* C17 (as stated): every reference getDealBlobReferences returns has a
\* non-empty blob identifier.
C17_BlobIdNonEmpty ==
  (SuiDone("getDealBlobReferences") /\ suiOutcome.kind = "returned") =>
     \A i \in DOMAIN suiOutcome.value : suiOutcome.value[i].blobId # ""

AuditSettled ==
  /\ suiOp \in {"getDealAuditRecords", "getBlobAuditRecord"}
  /\ suiPc = "done"
  /\ earnoutPackageId # ""

RECURSIVE ExpectedRecordIds(_, _, _)
\* the record ids of the events of the deal whose object came back as a Move
\* object, in event order; fetched holds how the fetch of each candidate settled
ExpectedRecordIds(events, dealId, fetched) ==
  IF events = <<>> THEN <<>>
  ELSE IF Head(events).deal_id = dealId /\ Head(events).audit_record_id.present
       THEN (IF Head(fetched) = "moveObject"
             THEN <<Head(events).audit_record_id.v>> ELSE <<>>)
              \o ExpectedRecordIds(Tail(events), dealId, Tail(fetched))
       ELSE ExpectedRecordIds(Tail(events), dealId, fetched)

RecordIdsOf(records) == [i \in DOMAIN records |-> records[i].id]

Count(seq, x) == Cardinality({i \in DOMAIN seq : seq[i] = x})

\* C18: once the event scan succeeded, getDealAuditRecords returns one record
\* per event of the queried deal whose record object was fetched as a Move
\* object, in event order, and nothing else; a failed or useless fetch is
\* skipped and never ends the query; a failed scan is thrown, wrapped.
C18_AuditRecordsPerEvent ==
  AuditSettled =>
    /\ suiTmp.scan = "ok" =>
         /\ suiTmp.inner.kind = "returned"
         /\ Len(suiTmp.fetched) =
              Cardinality({i \in DOMAIN ledger.events :
                             /\ ledger.events[i].deal_id = suiArg.dealId
                             /\ ledger.events[i].audit_record_id.present})
         /\ RecordIdsOf(suiTmp.inner.value) =
              ExpectedRecordIds(ledger.events, suiArg.dealId, suiTmp.fetched)
         /\ \A i \in DOMAIN suiTmp.inner.value :
              suiTmp.inner.value[i] =
                AuditRecordOf(suiTmp.inner.value[i].id,
                              RecordObject(suiTmp.inner.value[i].id, ledger.bad))
    /\ suiTmp.scan = "threw" =>
         /\ suiTmp.inner.kind = "thrown"
         /\ suiTmp.inner.error.isError
         /\ Head(suiTmp.inner.error.message) = "Failed to query audit records: "
         /\ Len(suiCalls) = 1
    /\ suiOp = "getDealAuditRecords" => suiOutcome = suiTmp.inner

C18_Witness ==
  /\ AuditSettled
  /\ suiOp = "getDealAuditRecords"
  /\ Len(suiTmp.ids) = 5
  /\ Count(suiTmp.fetched, "threw") = 1
  /\ Count(suiTmp.fetched, "moveObject") = 4
  /\ suiOutcome.kind = "returned"
  /\ Len(suiOutcome.value) = 4

\* C19: getBlobAuditRecord always returns: the first record of
\* getDealAuditRecords whose data id is the blob id, null when there is none,
\* and null when getDealAuditRecords threw.
C19_BlobAuditNeverThrows ==
  SuiDone("getBlobAuditRecord") =>
    /\ suiOutcome.kind = "returned"
    /\ suiTmp.inner.kind = "thrown" => suiOutcome.value = Null
    /\ suiTmp.inner.kind = "returned" =>
         LET recs == suiTmp.inner.value
             hits == {i \in DOMAIN recs : recs[i].dataId = suiArg.blobId}
         IN IF hits = {} THEN suiOutcome.value = Null
            ELSE \E i \in hits : /\ \A k \in hits : i <= k
                                 /\ suiOutcome.value = recs[i]

C19_Witness ==
  /\ SuiDone("getBlobAuditRecord")
  /\ suiArg.blobId = "b1"
  /\ suiTmp.inner.kind = "returned"
  /\ Len(suiTmp.inner.value) >= 4
  /\ suiTmp.inner.value[4].dataId = "b1"
  /\ suiOutcome = Returned(suiTmp.inner.value[2])

\* C20: with no package id configured, verifyDealParticipant returns true for
\* every deal id and every address without issuing a ledger query.
C20_FailOpenUnconfigured ==
  (suiOp = "verifyDealParticipant" /\ earnoutPackageId = "") =>
     /\ suiPc = "done"
     /\ suiCalls = <<>>
     /\ suiOutcome = Returned(TRUE)

C20_Witness ==
  /\ SuiDone("verifyDealParticipant")
  /\ earnoutPackageId = ""
  /\ suiArg.userAddress = "not an address"
  /\ suiArg.userAddress \notin DealParticipants(suiArg.dealId)
  /\ suiOutcome = Returned(TRUE)

\* the roles the fetched deal object records for an address
RecordedRoles(obj, userAddress) ==
  {r \in {"buyer", "seller", "auditor"} : obj[r].present /\ obj[r].v = userAddress}

\* C21: with the package configured, verifyDealParticipant always returns, and
\* returns true exactly when the deal object came back as a Move object and the
\* address is its buyer, seller or auditor; a failed query, a missing deal and
\* an object that is no Move object give false.
C21_FailClosedConfigured ==
  (SuiDone("verifyDealParticipant") /\ earnoutPackageId # "") =>
     /\ suiOutcome.kind = "returned"
     /\ suiOutcome.value \in BOOLEAN
     /\ Len(suiCalls) = 1
     /\ suiOutcome.value <=>
          /\ suiTmp.fetched = <<"moveObject">>
          /\ RecordedRoles(LookupDeal(suiArg.dealId), suiArg.userAddress) # {}
     /\ suiTmp.fetched \in {<<"threw">>, <<"none">>, <<"package">>} => suiOutcome.value = FALSE

C21_Witness ==
  /\ SuiDone("verifyDealParticipant")
  /\ earnoutPackageId # ""
  /\ suiArg.userAddress = "0xbuyer"
  /\ LookupDeal(suiArg.dealId).data = "moveObject"
  /\ RecordedRoles(LookupDeal(suiArg.dealId), "0xbuyer") = {"buyer"}
  /\ suiTmp.fetched = <<"threw">>
  /\ suiOutcome = Returned(FALSE)

DecryptOrder == <<"EncryptedObject.parse", "SessionKey.create", "fetchKeys", "decrypt">>

\* C24: the requests of one decrypt call are a prefix of parse, create session,
\* fetch keys, decrypt; the session has a ttl of 10 minutes and the backend
\* keypair as signer; fetchKeys asks for the threshold encrypt uses; a call
\* that fails after the guards throws one wrapped error and sends nothing more,
\* so decrypt is not requested after a failed session or key fetch.
C24_DecryptOrder ==
  (sealOp = "decrypt") =>
     /\ Len(sealCalls) <= Len(DecryptOrder)
     /\ \A n \in DOMAIN sealCalls : sealCalls[n].method = DecryptOrder[n]
     /\ Len(sealCalls) >= 2 =>
          /\ sealCalls[2].ttlMin = 10
          /\ sealCalls[2].signer = "loaded"
     /\ Len(sealCalls) >= 3 =>
          sealCalls[3].threshold =
            EncryptRequest(<<>>, [policyObjectId |-> policyObjectId,
                                  dealId |-> sealArg.dealId]).threshold
     /\ sealPc = "session" <=> (Len(sealCalls) = 2 /\ sealOutcome = NoOutcome)
     /\ sealPc = "fetchKeys" <=> (Len(sealCalls) = 3 /\ sealOutcome = NoOutcome)
     /\ sealPc = "decrypt" <=> (Len(sealCalls) = 4 /\ sealOutcome = NoOutcome)
     /\ (sealPc = "done" /\ sealOutcome.kind = "returned") => Len(sealCalls) = 4
     /\ (sealPc = "done" /\ sealOutcome.kind = "thrown" /\ DecryptChecks.ok) =>
          /\ sealOutcome.error.isError
          /\ Head(sealOutcome.error.message) = "Failed to decrypt data: "

C24_Witness ==
  /\ DecryptDone
  /\ sealOutcome = Thrown(ErrorOf(<<"Failed to decrypt data: ", "network request failed">>))
  /\ Len(sealCalls) = 3
  /\ sealCalls[3].method = "fetchKeys"
  /\ sealCalls[3].threshold = 2

\* C26 (as stated): when upload has thrown, the relay accepted no blob from
\* that call.
C26_NoBlobOnError ==
  (op = "upload" /\ pc = "done" /\ outcome.kind = "thrown") =>
     "result" \notin DOMAIN tmp

\* C27 (as stated): what getDealBlobIds returns is the sequence of the blobId
\* values getDealBlobReferences gives for the same deal.
C27_QueriesAgree ==
  SuiDone("getDealBlobIds") /\ suiTmp.fetched # <<"threw">> =>
     LET refs == IF earnoutPackageId = "" THEN Returned(<<>>)
                 ELSE BlobReferencesResult(LookupDeal(suiArg.dealId), suiArg.dealId)
     IN /\ suiOutcome.kind = refs.kind
        /\ suiOutcome.kind = "returned" =>
             /\ Len(suiOutcome.value) = Len(refs.value)
             /\ \A i \in DOMAIN refs.value :
                  /\ suiOutcome.value[i].present
                  /\ suiOutcome.value[i].v = refs.value[i].blobId

\* C29 (as stated): decrypt asks for key shares of its dealId argument only, and
\* returns no plaintext of a ciphertext whose identity is another deal.
C29_IdentityIsDealId ==
  (sealOp = "decrypt") =>
     /\ \A n \in DOMAIN sealCalls :
          sealCalls[n].method = "fetchKeys" => sealCalls[n].ids = <<sealArg.dealId>>
     /\ (sealPc = "done" /\ sealOutcome.kind = "returned") =>
          ParseEncryptedObject(sealArg.ciphertext).id = sealArg.dealId

\* C30 (as stated): the endEpoch upload returns is the epoch at which the relay
\* stored the blob plus the configured storage epochs.
C30_EndEpochGranted ==
  (op = "upload" /\ pc = "done" /\ outcome.kind = "returned") =>
     outcome.value.endEpoch = tmp.storedAtEpoch + storageEpochs

\* ---- C22: verifyAccess grants access exactly when the address is a recorded
\* participant of the deal holding the required role (when one is given),
\* whatever the environment
LedgerRoles(userAddress) == RecordedRoles(PlainDeal, userAddress)

C22_GrantsIffParticipant ==
  (sealOp = "verifyAccess" /\ sealPc = "done" /\ sealOutcome.kind = "returned") =>
    (sealOutcome.value.hasAccess <=>
       /\ LedgerRoles(sealArg.userAddress) # {}
       /\ sealArg.requiredRole.present =>
            sealArg.requiredRole.v \in LedgerRoles(sealArg.userAddress))

\* ---- C23: verifyAccess always returns a result and never throws; in
\* development it grants with role 'buyer', anywhere else it denies with a
\* reason; a denial has a reason and a grant has a role
C23_AccessResultValued ==
  (sealOp = "verifyAccess" /\ sealPc = "done") =>
    /\ sealOutcome.kind = "returned"
    /\ nodeEnv = "development" =>
         /\ sealOutcome.value.hasAccess
         /\ sealOutcome.value.role = [present |-> TRUE, v |-> "buyer"]
    /\ nodeEnv # "development" =>
         /\ ~sealOutcome.value.hasAccess
         /\ sealOutcome.value.reason.present
         /\ sealOutcome.value.reason.v # ""
    /\ sealOutcome.value.hasAccess => sealOutcome.value.role.present
    /\ ~sealOutcome.value.hasAccess => sealOutcome.value.reason.present

C23_Witness ==
  /\ sealOp = "verifyAccess"
  /\ sealPc = "done"
  /\ nodeEnv = "production"
  /\ sealArg.requiredRole = [present |-> TRUE, v |-> "auditor"]
  /\ sealOutcome.kind = "returned"
  /\ ~sealOutcome.value.hasAccess
  /\ sealOutcome.value.reason.v = NotImplementedReason

\* ---- C25: a submit starts createDeal at most once, as its second call after
\* uploadFile, with the non-empty blobId the upload returned as agreementBlobId;
\* without a file or a wallet a submit starts nothing; after a failed upload or
\* one without a blobId there is no createDeal
CreateDealCalls == {i \in DOMAIN pageCalls : pageCalls[i].method = "createDeal"}

C25_CreateDealAfterUpload ==
  /\ Cardinality(CreateDealCalls) <= 1
  /\ \A i \in CreateDealCalls :
       /\ i = 2
       /\ pageCalls[1] = UploadFileRequest(uploadedFile)
       /\ Truthy(pageTmp.blobId)
       /\ pageCalls[i].dealData.agreementBlobId = pageTmp.blobId.v
  /\ (pagePc # "idle" /\ (uploadedFile = NoFile \/ currentAccount = "")) => pageCalls = <<>>
  /\ (pagePc = "done" /\ ~Truthy(pageTmp.blobId)) => CreateDealCalls = {}

C25_Witness ==
  /\ pagePc = "done"
  /\ Len(pageCalls) = 3
  /\ pageCalls[1].method = "uploadFile"
  /\ pageCalls[2].method = "createDeal"
  /\ pageCalls[2].dealData.agreementBlobId = "blobA"
  /\ pageCalls[3].method = "router.push"

\* ---- C28: decrypt opens its session under the package the ciphertext was
\* encrypted under, and encrypt encrypts under the package of the policy
\* identifier whose presence it checked
C28_SamePolicyPackage ==
  /\ (sealOp = "decrypt" /\ Len(sealCalls) > 0) =>
       sealCalls[1].packageId = ParseEncryptedObject(sealArg.ciphertext).packageId
  /\ (sealOp = "encrypt" /\ Len(sealCalls) > 0) =>
       sealCalls[1].packageId = PackageIdOf(policyObjectId)

====
